---- MODULE Spec2Model ----
(***************************************************************************)
(* Model of stack/context.go of panicparse: the line scanner, the line     *)
(* grammar (the regular expressions and parseFunc / parseFile), the dump   *)
(* state machine scanningState.scan, and the drivers parseDump/ParseDump.  *)
(*                                                                         *)
(* Lines are real strings, terminator included, and every recognizer is    *)
(* computed on the characters of the line as the regular expression of    *)
(* the source does.                                                        *)
(***************************************************************************)
EXTENDS Integers, Sequences, FiniteSets, TLC

(***************************************************************************)
(* strings package                                                         *)
(***************************************************************************)
Char(s, i) == SubSeq(s, i, i)

Drop(s, n) == SubSeq(s, n + 1, Len(s))

HasPrefix(s, p) == Len(p) <= Len(s) /\ SubSeq(s, 1, Len(p)) = p

HasSuffix(s, x) == Len(x) <= Len(s) /\ SubSeq(s, Len(s) - Len(x) + 1, Len(s)) = x

\* Number of leading characters of s that belong to set (a greedy [set]* ).
LeadingCount(s, set) ==
  CHOOSE n \in 0..Len(s) :
    /\ \A i \in 1..n : Char(s, i) \in set
    /\ n = Len(s) \/ Char(s, n + 1) \notin set

\* Number of trailing characters of s that belong to set.
TrailingCount(s, set) ==
  CHOOSE n \in 0..Len(s) :
    /\ \A i \in (Len(s) - n + 1)..Len(s) : Char(s, i) \in set
    /\ n = Len(s) \/ Char(s, Len(s) - n) \notin set

\* Index of the first occurrence of sep in s, 0 when there is none.
Index(s, sep) ==
  LET hits == {i \in 1..(Len(s) - Len(sep) + 1) : SubSeq(s, i, i + Len(sep) - 1) = sep}
  IN  IF hits = {} THEN 0 ELSE CHOOSE i \in hits : \A j \in hits : i <= j

\* Index of the last occurrence of sep in s, 0 when there is none.
LastIndex(s, sep) ==
  LET hits == {i \in 1..(Len(s) - Len(sep) + 1) : SubSeq(s, i, i + Len(sep) - 1) = sep}
  IN  IF hits = {} THEN 0 ELSE CHOOSE i \in hits : \A j \in hits : i >= j

RECURSIVE Split(_, _)
Split(s, sep) ==
  LET i == Index(s, sep)
  IN  IF i = 0 THEN <<s>>
      ELSE <<SubSeq(s, 1, i - 1)>> \o Split(Drop(s, i + Len(sep) - 1), sep)

SpaceChars == {" ", "\t", "\n", "\r", "\f"}

TrimSpace(s) ==
  LET a == LeadingCount(s, SpaceChars)
      b == TrailingCount(s, SpaceChars)
  IN  IF a = Len(s) THEN "" ELSE SubSeq(s, a + 1, Len(s) - b)

TrimLeft(s, cutset) == Drop(s, LeadingCount(s, cutset))

\* The %q verb of fmt: the string double-quoted, Go-escaped.
RECURSIVE Escape(_)
Escape(s) ==
  IF s = "" THEN ""
  ELSE LET c == Char(s, 1)
           e == CASE c = "\t" -> "\\t"
                  [] c = "\n" -> "\\n"
                  [] c = "\r" -> "\\r"
                  [] c = "\f" -> "\\f"
                  [] c = "\"" -> "\\\""
                  [] c = "\\" -> "\\\\"
                  [] OTHER    -> c
       IN  e \o Escape(Drop(s, 1))

Quote(s) == "\"" \o Escape(s) \o "\""

(***************************************************************************)
(* strconv package                                                         *)
(***************************************************************************)
Digits == {"0", "1", "2", "3", "4", "5", "6", "7", "8", "9"}

HexLower == Digits \cup {"a", "b", "c", "d", "e", "f"}

HexAny == HexLower \cup {"A", "B", "C", "D", "E", "F"}

DigitString == "0123456789abcdef"

UpperString == "0123456789ABCDEF"

\* Value of one digit character (of HexAny).
DigitVal(c) ==
  IF Index(DigitString, c) # 0 THEN Index(DigitString, c) - 1
  ELSE Index(UpperString, c) - 1

\* Digit strings of equal length: a <= b as numbers.
RECURSIVE LexLE(_, _)
LexLE(a, b) ==
  IF a = "" THEN TRUE
  ELSE IF DigitVal(Char(a, 1)) # DigitVal(Char(b, 1))
       THEN DigitVal(Char(a, 1)) < DigitVal(Char(b, 1))
       ELSE LexLE(Drop(a, 1), Drop(b, 1))

\* A digit string denotes a number <= the number denoted by max.
FitsIn(digits, max) ==
  LET d == Drop(digits, LeadingCount(digits, {"0"}))
  IN  Len(d) < Len(max) \/ (Len(d) = Len(max) /\ LexLE(d, max))

\* The number a digit string denotes in a base. The model's integers are the
\* checker's: the inputs keep every in-range value below 2^31.
RECURSIVE ValueOf(_, _)
ValueOf(digits, base) ==
  IF digits = "" THEN 0
  ELSE ValueOf(SubSeq(digits, 1, Len(digits) - 1), base) * base
       + DigitVal(Char(digits, Len(digits)))

MaxInt64 == "9223372036854775807"

MinInt64Abs == "9223372036854775808"

\* strconv.Atoi on a 64-bit build: optional sign, decimal digits, range of
\* int64. Out of range, the value returned with the error is the nearest
\* bound, kept here as its digit string.
Atoi(s) ==
  LET neg  == HasPrefix(s, "-")
      body == IF HasPrefix(s, "-") \/ HasPrefix(s, "+") THEN Drop(s, 1) ELSE s
  IN  IF body = "" \/ \E i \in 1..Len(body) : Char(body, i) \notin Digits
      THEN [ok |-> FALSE, v |-> 0]
      ELSE IF ~FitsIn(body, IF neg THEN MinInt64Abs ELSE MaxInt64)
      THEN [ok |-> FALSE, v |-> IF neg THEN "-" \o MinInt64Abs ELSE MaxInt64]
      ELSE [ok |-> TRUE, v |-> IF neg THEN 0 - ValueOf(body, 10) ELSE ValueOf(body, 10)]

MaxUint64Dec == "18446744073709551615"

MaxUint64Hex == "ffffffffffffffff"

MaxUint64Oct == "1777777777777777777777"

\* strconv.ParseUint(s, 0, 64): the base comes from the prefix ("0x" 16,
\* "0" 8, otherwise 10); no sign is accepted; range of uint64.
ParseUint(s) ==
  LET hex    == HasPrefix(s, "0x") \/ HasPrefix(s, "0X")
      oct    == ~hex /\ HasPrefix(s, "0") /\ Len(s) > 1
      base   == IF hex THEN 16 ELSE IF oct THEN 8 ELSE 10
      digits == IF hex THEN Drop(s, 2) ELSE IF oct THEN Drop(s, 1) ELSE s
      valid  == IF hex THEN HexAny
                ELSE IF oct THEN {"0", "1", "2", "3", "4", "5", "6", "7"}
                ELSE Digits
      max    == IF hex THEN MaxUint64Hex ELSE IF oct THEN MaxUint64Oct ELSE MaxUint64Dec
  IN  IF digits = "" \/ \E i \in 1..Len(digits) : Char(digits, i) \notin valid
      THEN [ok |-> FALSE, v |-> 0]
      ELSE IF ~FitsIn(digits, max)
      THEN [ok |-> FALSE, v |-> MaxUint64Dec]
      ELSE [ok |-> TRUE, v |-> ValueOf(digits, base)]

(***************************************************************************)
(* The line grammar: the regular expressions of the source. Each operator  *)
(* returns [ok, ...] where ok says whether the expression matches and the  *)
(* other fields are the submatches (match[1], match[2], ...).              *)
(***************************************************************************)
lockedToThread == "locked to thread"

elided == "...additional frames elided..."

raceHeaderFooter == "=================="

raceHeader == "WARNING: DATA RACE"

NoMatch == [ok |-> FALSE, m1 |-> "", m2 |-> "", m3 |-> ""]

\* ^([ \t]*)goroutine (\d+) \[([^\]]+)\]\:$
reRoutineHeader(s) ==
  LET ws   == LeadingCount(s, {" ", "\t"})
      r1   == Drop(s, ws)
      r2   == Drop(r1, Len("goroutine "))
      nd   == LeadingCount(r2, Digits)
      r3   == Drop(r2, nd)
      in   == SubSeq(r3, 3, Len(r3) - 2)
  IN  IF /\ HasPrefix(r1, "goroutine ")
         /\ nd >= 1
         /\ HasPrefix(r3, " [")
         /\ Len(r3) >= 5
         /\ HasSuffix(r3, "]:")
         /\ Index(in, "]") = 0
      THEN [ok |-> TRUE, m1 |-> SubSeq(s, 1, ws), m2 |-> SubSeq(r2, 1, nd), m3 |-> in]
      ELSE NoMatch

\* ^(\d+) minutes$
reMinutes(s) ==
  LET nd == LeadingCount(s, Digits)
  IN  IF nd >= 1 /\ Drop(s, nd) = " minutes"
      THEN [ok |-> TRUE, m1 |-> SubSeq(s, 1, nd), m2 |-> "", m3 |-> ""]
      ELSE NoMatch

\* The lengths of the indentation (?:\t| +) can take at the start of s, the
\* preferred one first: one tab, or a run of spaces, longest first.
IndentChoices(s) ==
  IF HasPrefix(s, "\t") THEN <<1>>
  ELSE LET ns == LeadingCount(s, {" "}) IN [i \in 1..ns |-> ns + 1 - i]

\* ^(?:\t| +)goroutine running on other thread; stack unavailable
reUnavail(s) ==
  \E i \in DOMAIN IndentChoices(s) :
    HasPrefix(Drop(s, IndentChoices(s)[i]),
              "goroutine running on other thread; stack unavailable")

\* ^(0x[0-9a-f]+) at the start of s after the literal lit: the rest of s
\* after the hexadecimal digits, or ok = FALSE.
HexField(s, lit) ==
  LET r  == Drop(s, Len(lit))
      nh == LeadingCount(r, HexLower)
  IN  IF HasPrefix(s, lit) /\ nh >= 1
      THEN [ok |-> TRUE, rest |-> Drop(r, nh)]
      ELSE [ok |-> FALSE, rest |-> ""]

\* s is lit followed by hexadecimal digits up to its end.
HexFieldEnds(s, lit) ==
  /\ HasPrefix(s, lit)
  /\ Len(s) > Len(lit)
  /\ LeadingCount(Drop(s, Len(lit)), HexLower) = Len(s) - Len(lit)

\* (?:| fp=0x[0-9a-f]+ sp=0x[0-9a-f]+(?:| pc=0x[0-9a-f]+))$ from the sp field
\* on, sp being the match of " sp=0x[0-9a-f]+".
FileFrameSp(sp) == sp.ok /\ (sp.rest = "" \/ HexFieldEnds(sp.rest, " pc=0x"))

\* The same from the fp field on, fp being the match of " fp=0x[0-9a-f]+".
FileFrameFp(fp) == fp.ok /\ FileFrameSp(HexField(fp.rest, " sp=0x"))

\* (?:| fp=0x[0-9a-f]+ sp=0x[0-9a-f]+(?:| pc=0x[0-9a-f]+))$
FileFrameTail(s) == s = "" \/ FileFrameFp(HexField(s, " fp=0x"))

\* off being the match of " \+0x[0-9a-f]+", the frame fields follow it.
FileOffsetTail(off) == off.ok /\ FileFrameTail(off.rest)

\* (?:| \+0x[0-9a-f]+)(?:| fp=... sp=...(?:| pc=...))$ : what follows the
\* line number of a file line.
FileTail(s) == FileFrameTail(s) \/ FileOffsetTail(HexField(s, " +0x"))

\* (\d+) then FileTail: what follows the colon of a file line.
FileNumber(s) ==
  /\ LeadingCount(s, Digits) >= 1
  /\ FileTail(Drop(s, LeadingCount(s, Digits)))

\* (\?\?|\<autogenerated\>|.+\.(?:c|go|s))
FilePath(p) ==
  \/ p = "??"
  \/ p = "<autogenerated>"
  \/ \E ext \in {".c", ".go", ".s"} : HasSuffix(p, ext) /\ Len(p) > Len(ext)

\* The ends k of a path body[1..k] that a colon, a line number and a valid
\* tail follow up to the end of body.
FileEnds(body) ==
  {k \in 1..(Len(body) - 2) :
     /\ Char(body, k + 1) = ":"
     /\ FilePath(SubSeq(body, 1, k))
     /\ FileNumber(Drop(body, k + 1))}

\* The match of reFile on the line body once its indentation is taken, ends
\* being FileEnds(body): "??" first, then "<autogenerated>", then the
\* longest path.
reFileBody(body, ends) ==
  LET k == IF 2 \in ends /\ SubSeq(body, 1, 2) = "??" THEN 2
           ELSE IF 15 \in ends /\ SubSeq(body, 1, 15) = "<autogenerated>" THEN 15
           ELSE CHOOSE x \in ends : \A y \in ends : x >= y
  IN  [ok |-> TRUE,
       m1 |-> SubSeq(body, 1, k),
       m2 |-> SubSeq(body, k + 2, k + 1 + LeadingCount(Drop(body, k + 1), Digits)),
       m3 |-> ""]

\* The match of reFile on s, ind being IndentChoices(s): the first
\* indentation of ind that lets the rest of the line match.
reFileIndent(s, ind, good) ==
  IF good = {} THEN NoMatch
  ELSE reFileBody(Drop(s, ind[CHOOSE x \in good : \A y \in good : x <= y]),
                  FileEnds(Drop(s, ind[CHOOSE x \in good : \A y \in good : x <= y])))

\* ^(?:\t| +)(\?\?|\<autogenerated\>|.+\.(?:c|go|s))\:(\d+)(?:| \+0x[0-9a-f]+)
\*  (?:| fp=0x[0-9a-f]+ sp=0x[0-9a-f]+(?:| pc=0x[0-9a-f]+))$
\* Leftmost-first matching: the longest indentation that lets the rest match,
\* then "??", then "<autogenerated>", then the longest path.
reFile(s) ==
  reFileIndent(s, IndentChoices(s),
               {i \in DOMAIN IndentChoices(s) : FileEnds(Drop(s, IndentChoices(s)[i])) # {}})

\* ^created by (.+)$
reCreated(s) ==
  IF HasPrefix(s, "created by ") /\ Len(s) > Len("created by ")
  THEN [ok |-> TRUE, m1 |-> Drop(s, Len("created by ")), m2 |-> "", m3 |-> ""]
  ELSE NoMatch

\* ^(.+)\((.*)\)$ : the greedy (.+) stops at the last "(".
reFunc(s) ==
  LET p == LastIndex(s, "(")
  IN  IF HasSuffix(s, ")") /\ p >= 2
      THEN [ok |-> TRUE, m1 |-> SubSeq(s, 1, p - 1),
            m2 |-> SubSeq(s, p + 1, Len(s) - 1), m3 |-> ""]
      ELSE NoMatch

\* ^<lead>(<kinds>) at (0x[0-9a-f]+) by goroutine (\d+):$ , the shape shared
\* by reRaceOperationHeader and reRacePreviousOperationHeader.
RaceOperationShape(s, lead, kinds) ==
  LET ks == {k \in kinds : HasPrefix(s, lead \o k \o " at ")}
  IN  IF ks = {} THEN NoMatch
      ELSE LET k    == CHOOSE x \in ks : TRUE
               r1   == Drop(s, Len(lead \o k \o " at "))
               nh   == LeadingCount(Drop(r1, 2), HexLower)
               addr == SubSeq(r1, 1, 2 + nh)
               r2   == Drop(r1, 2 + nh)
               r3   == Drop(r2, Len(" by goroutine "))
               nd   == LeadingCount(r3, Digits)
           IN  IF /\ HasPrefix(r1, "0x")
                  /\ nh >= 1
                  /\ HasPrefix(r2, " by goroutine ")
                  /\ nd >= 1
                  /\ Drop(r3, nd) = ":"
               THEN [ok |-> TRUE, m1 |-> k, m2 |-> addr, m3 |-> SubSeq(r3, 1, nd)]
               ELSE NoMatch

\* ^(Read|Write) at (0x[0-9a-f]+) by goroutine (\d+):$
reRaceOperationHeader(s) == RaceOperationShape(s, "", {"Read", "Write"})

\* ^Previous (read|write) at (0x[0-9a-f]+) by goroutine (\d+):$
reRacePreviousOperationHeader(s) == RaceOperationShape(s, "Previous ", {"read", "write"})

\* ^Goroutine (\d+) \((running|finished)\) created at:$
reRaceGoroutine(s) ==
  LET r1 == Drop(s, Len("Goroutine "))
      nd == LeadingCount(r1, Digits)
      r2 == Drop(r1, nd)
      ks == {k \in {"running", "finished"} : r2 = " (" \o k \o ") created at:"}
  IN  IF HasPrefix(s, "Goroutine ") /\ nd >= 1 /\ ks # {}
      THEN [ok |-> TRUE, m1 |-> SubSeq(r1, 1, nd), m2 |-> CHOOSE k \in ks : TRUE, m3 |-> ""]
      ELSE NoMatch

(***************************************************************************)
(* The data model: Call, Goroutine, and the error values.                  *)
(***************************************************************************)
\* The nil error.
nil == "<nil>"

\* Call{}
ZeroCall ==
  [Func    |-> [Raw |-> ""],
   Args    |-> [Values |-> <<>>, Elided |-> FALSE],
   SrcPath |-> "",
   Line    |-> 0]

\* parseArgs skipping an empty field instead of stopping at it.
RECURSIVE parseArgsSkipsEmpty(_, _, _, _)
parseArgsSkipsEmpty(c, fields, i, line) ==
  IF i > Len(fields) THEN [found |-> TRUE, err |-> nil, c |-> c]
  ELSE IF fields[i] = "..."
  THEN parseArgsSkipsEmpty([c EXCEPT !.Args.Elided = TRUE], fields, i + 1, line)
  ELSE IF fields[i] = ""
  THEN parseArgsSkipsEmpty(c, fields, i + 1, line)
  ELSE IF ~ParseUint(fields[i]).ok
  THEN [found |-> TRUE,
        err   |-> "failed to parse int on line: " \o Quote(TrimSpace(line)),
        c     |-> c]
  ELSE parseArgsSkipsEmpty(
         [c EXCEPT !.Args.Values = Append(@, [Value |-> ParseUint(fields[i]).v])],
         fields, i + 1, line)

\* The loop of parseFunc over the fields of the argument list, from field i:
\* "..." sets Elided and continues, an empty field breaks, a field that is
\* not a number returns the error.
RECURSIVE parseArgs(_, _, _, _)
parseArgs(c, fields, i, line) ==
  IF i > Len(fields) THEN [found |-> TRUE, err |-> nil, c |-> c]
  ELSE LET a == fields[i]
           v == ParseUint(a)
       IN  IF a = "..."
           THEN parseArgs([c EXCEPT !.Args.Elided = TRUE], fields, i + 1, line)
           ELSE IF a = ""
           THEN [found |-> TRUE, err |-> nil, c |-> c]
           ELSE IF ~v.ok
           THEN [found |-> TRUE,
                 err   |-> "failed to parse int on line: " \o Quote(TrimSpace(line)),
                 c     |-> c]
           ELSE parseArgs([c EXCEPT !.Args.Values = Append(@, [Value |-> v.v])],
                          fields, i + 1, line)

\* parseFunc(c, line): found, the error, and c as the call leaves it.
parseFunc(c, line) ==
  LET match == reFunc(line)
  IN  IF match.ok
      THEN parseArgs([c EXCEPT !.Func.Raw = match.m1], Split(match.m2, ", "), 1, line)
      ELSE [found |-> FALSE, err |-> nil, c |-> c]

\* parseFile once reFile matched: num is strconv.Atoi(match[2]).
parseFileNum(c, line, match, num) ==
  IF ~num.ok
  THEN [found |-> TRUE,
        err   |-> "failed to parse int on line: " \o Quote(TrimSpace(line)),
        c     |-> c]
  ELSE [found |-> TRUE, err |-> nil,
        c |-> [c EXCEPT !.SrcPath = match.m1, !.Line = num.v]]

\* parseFile, match being reFile.FindStringSubmatch(line).
parseFileMatch(c, line, match) ==
  IF match.ok THEN parseFileNum(c, line, match, Atoi(match.m2))
  ELSE [found |-> FALSE, err |-> nil, c |-> c]

\* parseFile(c, line): found, the error, and c as the call leaves it.
parseFile(c, line) == parseFileMatch(c, line, reFile(line))

(***************************************************************************)
(* scanningState and its method scan. A scanningState is the record        *)
(* [raceDetectionEnabled, goroutines, state, prefix, races]; scan returns  *)
(* [s, line, err]: the scanningState it leaves, the text to pass through   *)
(* and the error.                                                          *)
(***************************************************************************)
States ==
  {"normal", "betweenRoutine", "gotRoutineHeader", "gotFunc", "gotCreated",
   "gotFileFunc", "gotFileCreated", "gotUnavail",
   "gotRaceHeader1", "gotRaceHeader", "gotRaceOperationHeader",
   "gotRaceOperationFunc", "gotRaceOperationFile", "gotRaceGoroutineHeader",
   "gotRaceGoroutineFunc", "gotRaceGoroutineFile", "betweenRaces"}

\* scanningState{} with the given raceDetectionEnabled.
ZeroState(race) ==
  [raceDetectionEnabled |-> race,
   goroutines           |-> <<>>,
   state                |-> "normal",
   prefix               |-> "",
   races                |-> <<>>]

Ret(s, line, err) == [s |-> s, line |-> line, err |-> err]

\* cur, the last goroutine of s.
Cur(s) == s.goroutines[Len(s.goroutines)]

\* SetCur with cur pointing to the first goroutine.
SetCurFirst(s, g) == [s EXCEPT !.goroutines[1] = g]

\* s after the goroutine cur points to became g.
SetCur(s, g) == [s EXCEPT !.goroutines[Len(s.goroutines)] = g]

\* AppendCall writing c over the last call of a stack that has one.
AppendCallOverLast(s, c) ==
  SetCur(s, [Cur(s) EXCEPT !.Stack.Calls =
                      IF @ = <<>> THEN <<c>> ELSE [@ EXCEPT ![Len(@)] = c]])

\* cur.Stack.Calls = append(cur.Stack.Calls, c)
AppendCall(s, c) == SetCur(s, [Cur(s) EXCEPT !.Stack.Calls = Append(@, c)])

\* The goroutine a header line makes: the state is the first item of the
\* bracket, "locked to thread" sets Locked, the last "N minutes" item sets
\* the sleep time.
HeaderGoroutine(s, match, id) ==
  LET items  == Split(match.m3, ", ")
      mins   == {i \in 2..Len(items) :
                   items[i] # lockedToThread /\ reMinutes(items[i]).ok}
      sleep  == IF mins = {} THEN 0
                ELSE Atoi(reMinutes(items[CHOOSE i \in mins : \A j \in mins : i >= j]).m1).v
      locked == \E i \in 2..Len(items) : items[i] = lockedToThread
  IN  [Signature |-> [State |-> items[1], SleepMin |-> sleep,
                      SleepMax |-> sleep, Locked |-> locked],
       ID        |-> id,
       First     |-> Len(s.goroutines) = 0,
       Stack     |-> [Calls |-> <<>>, Elided |-> FALSE],
       CreatedBy |-> ZeroCall]

\* scanNormal passing the line through without its terminator.
scanNormalTrimmed(s, line, trimmed) ==
  LET match == reRoutineHeader(trimmed)
      id    == Atoi(match.m2)
  IN  IF match.ok /\ id.ok
      THEN Ret([s EXCEPT !.goroutines = Append(@, HeaderGoroutine(s, match, id.v)),
                         !.state = "gotRoutineHeader",
                         !.prefix = match.m1],
               "", nil)
      ELSE IF s.raceDetectionEnabled /\ trimmed = raceHeaderFooter
      THEN Ret([s EXCEPT !.state = "gotRaceHeader1"], "", nil)
      ELSE Ret([s EXCEPT !.state = "normal", !.prefix = ""], trimmed, nil)

\* scanNormal looking for the report of a race whatever raceDetectionEnabled.
scanNormalRaceAlways(s, line, trimmed) ==
  LET match == reRoutineHeader(trimmed)
      id    == Atoi(match.m2)
  IN  IF match.ok /\ id.ok
      THEN Ret([s EXCEPT !.goroutines = Append(@, HeaderGoroutine(s, match, id.v)),
                         !.state = "gotRoutineHeader",
                         !.prefix = match.m1],
               "", nil)
      ELSE IF trimmed = raceHeaderFooter
      THEN Ret([s EXCEPT !.state = "gotRaceHeader1"], "", nil)
      ELSE Ret([s EXCEPT !.state = "normal", !.prefix = ""], line, nil)

\* case normal, betweenRoutine
scanNormal(s, line, trimmed) ==
  LET match == reRoutineHeader(trimmed)
      id    == Atoi(match.m2)
  IN  IF match.ok /\ id.ok
      THEN Ret([s EXCEPT !.goroutines = Append(@, HeaderGoroutine(s, match, id.v)),
                         !.state = "gotRoutineHeader",
                         !.prefix = match.m1],
               "", nil)
      ELSE IF s.raceDetectionEnabled /\ trimmed = raceHeaderFooter
      THEN Ret([s EXCEPT !.state = "gotRaceHeader1"], "", nil)
      ELSE Ret([s EXCEPT !.state = "normal", !.prefix = ""], line, nil)

\* case gotRoutineHeader
\* f being what parseFunc returned.
scanHeaderFunc(s, trimmed, f) ==
  IF f.found
  THEN Ret([AppendCall(s, f.c) EXCEPT !.state = "gotFunc"], "", f.err)
  ELSE Ret(s, "", "expected a function after a goroutine header, got: "
                    \o Quote(TrimSpace(trimmed)))

scanGotRoutineHeader(s, line, trimmed) ==
  IF reUnavail(trimmed)
  THEN Ret([SetCur(s, [Cur(s) EXCEPT !.Stack.Calls =
                              <<[ZeroCall EXCEPT !.SrcPath = "<unavailable>"]>>])
              EXCEPT !.state = "gotUnavail"],
           "", nil)
  ELSE scanHeaderFunc(s, trimmed, parseFunc(ZeroCall, trimmed))

\* case gotFunc
\* f being what parseFile returned for the last call of cur.
scanFuncFile(s, trimmed, f) ==
  IF f.err # nil THEN Ret(s, "", f.err)
  ELSE IF ~f.found
  THEN Ret(s, "", "expected a file after a function, got: "
                    \o Quote(TrimSpace(trimmed)))
  ELSE Ret([SetCur(s, [Cur(s) EXCEPT !.Stack.Calls[Len(Cur(s).Stack.Calls)] = f.c])
              EXCEPT !.state = "gotFileFunc"],
           "", nil)

scanGotFunc(s, line, trimmed) ==
  scanFuncFile(s, trimmed,
               parseFile(Cur(s).Stack.Calls[Len(Cur(s).Stack.Calls)], trimmed))

\* case gotCreated
\* scanCreatedFile putting the creation site on the stack as well.
scanCreatedFileOnStack(s, trimmed, f) ==
  IF f.err # nil THEN Ret(s, "", f.err)
  ELSE IF ~f.found
  THEN Ret(s, "", "expected a file after a created line, got: " \o Quote(trimmed))
  ELSE Ret([AppendCall(SetCur(s, [Cur(s) EXCEPT !.CreatedBy = f.c]), f.c)
              EXCEPT !.state = "gotFileCreated"],
           "", nil)

\* f being what parseFile returned for cur.CreatedBy.
scanCreatedFile(s, trimmed, f) ==
  IF f.err # nil THEN Ret(s, "", f.err)
  ELSE IF ~f.found
  THEN Ret(s, "", "expected a file after a created line, got: " \o Quote(trimmed))
  ELSE Ret([SetCur(s, [Cur(s) EXCEPT !.CreatedBy = f.c])
              EXCEPT !.state = "gotFileCreated"],
           "", nil)

scanGotCreated(s, line, trimmed) ==
  scanCreatedFile(s, trimmed, parseFile(Cur(s).CreatedBy, trimmed))

\* scanFileFuncFunc going back to normal without clearing the prefix.
scanFileFuncFuncKeepsPrefix(s, line, trimmed, f) ==
  IF f.found
  THEN Ret([AppendCall(s, f.c) EXCEPT !.state = "gotFunc"], "", f.err)
  ELSE IF trimmed = ""
  THEN Ret([s EXCEPT !.state = "betweenRoutine"], "", nil)
  ELSE Ret([s EXCEPT !.state = "normal"], line, nil)

\* case gotFileFunc
\* The end of case gotFileFunc, f being what parseFunc returned.
scanFileFuncFunc(s, line, trimmed, f) ==
  IF f.found
  THEN Ret([AppendCall(s, f.c) EXCEPT !.state = "gotFunc"], "", f.err)
  ELSE IF trimmed = ""
  THEN Ret([s EXCEPT !.state = "betweenRoutine"], "", nil)
  ELSE Ret([s EXCEPT !.state = "normal", !.prefix = ""], line, nil)

scanGotFileFunc(s, line, trimmed) ==
  IF reCreated(trimmed).ok
  THEN Ret([SetCur(s, [Cur(s) EXCEPT !.CreatedBy.Func.Raw = reCreated(trimmed).m1])
              EXCEPT !.state = "gotCreated"],
           "", nil)
  ELSE IF elided = trimmed
  THEN Ret(SetCur(s, [Cur(s) EXCEPT !.Stack.Elided = TRUE]), "", nil)
  ELSE scanFileFuncFunc(s, line, trimmed, parseFunc(ZeroCall, trimmed))

\* scanGotFileCreated dropping the line that ends the dump.
scanGotFileCreatedDrops(s, line, trimmed) ==
  IF trimmed = ""
  THEN Ret([s EXCEPT !.state = "betweenRoutine"], "", nil)
  ELSE Ret([s EXCEPT !.state = "normal", !.prefix = ""], "", nil)

\* scanGotFileCreated accepting one more creation line.
scanGotFileCreatedAgain(s, line, trimmed) ==
  IF trimmed = ""
  THEN Ret([s EXCEPT !.state = "betweenRoutine"], "", nil)
  ELSE IF reCreated(trimmed).ok
  THEN Ret([SetCur(s, [Cur(s) EXCEPT !.CreatedBy.Func.Raw = reCreated(trimmed).m1])
              EXCEPT !.state = "gotCreated"],
           "", nil)
  ELSE Ret([s EXCEPT !.state = "normal", !.prefix = ""], line, nil)

\* case gotFileCreated
scanGotFileCreated(s, line, trimmed) ==
  IF trimmed = ""
  THEN Ret([s EXCEPT !.state = "betweenRoutine"], "", nil)
  ELSE Ret([s EXCEPT !.state = "normal", !.prefix = ""], line, nil)

\* case gotUnavail
scanGotUnavail(s, line, trimmed) ==
  LET match == reCreated(trimmed)
  IN  IF trimmed = ""
      THEN Ret([s EXCEPT !.state = "betweenRoutine"], "", nil)
      ELSE IF match.ok
      THEN Ret([SetCur(s, [Cur(s) EXCEPT !.CreatedBy.Func.Raw = match.m1])
                  EXCEPT !.state = "gotCreated"],
               "", nil)
      ELSE Ret(s, "", "expected empty line after unavailable stack, got: "
                        \o Quote(TrimSpace(trimmed)))

\* The common part of case gotRaceHeader and of the first branch of case
\* betweenRaces: a matched operation header appends a raceOp.
raceOperation(s, match, write, trimmed) ==
  LET addr == ParseUint(match.m2)
      id   == Atoi(match.m3)
  IN  IF ~addr.ok
      THEN Ret(s, "", "failed to parse address on line: " \o Quote(TrimSpace(trimmed)))
      ELSE IF ~id.ok
      THEN Ret(s, "", "failed to parse goroutine id on line: " \o Quote(TrimSpace(trimmed)))
      ELSE Ret([s EXCEPT !.races = Append(@, [write |-> write, addr |-> addr.v, id |-> id.v]),
                         !.state = "gotRaceOperationHeader"],
               "", nil)

\* case gotRaceHeader1
scanGotRaceHeader1(s, line, trimmed) ==
  IF raceHeader = trimmed
  THEN Ret([s EXCEPT !.state = "gotRaceHeader"], "", nil)
  ELSE Ret([s EXCEPT !.state = "normal"], line, nil)

\* case gotRaceHeader
scanGotRaceHeader(s, line, trimmed) ==
  LET match == reRaceOperationHeader(trimmed)
  IN  IF match.ok
      THEN raceOperation(s, match, match.m1 = "Write", trimmed)
      ELSE Ret([s EXCEPT !.state = "normal"], line, nil)

\* case gotRaceOperationHeader
scanGotRaceOperationHeader(s, line, trimmed) ==
  LET f == parseFunc(ZeroCall, trimmed)
  IN  IF f.found
      THEN Ret([s EXCEPT !.state = "gotRaceOperationFunc"], "", f.err)
      ELSE Ret(s, "", "expected a function after a race operation, got: " \o Quote(trimmed))

\* case gotRaceGoroutineHeader
scanGotRaceGoroutineHeader(s, line, trimmed) ==
  LET f == parseFunc(ZeroCall, TrimLeft(trimmed, {"\t", " "}))
  IN  IF f.found
      THEN Ret([AppendCall(s, f.c) EXCEPT !.state = "gotRaceGoroutineFunc"], "", f.err)
      ELSE Ret(s, "", "expected a function after a race operation, got: " \o Quote(trimmed))

\* case gotRaceOperationFunc
\* f being what parseFile returned for a Call that is dropped.
scanRaceOperationFile(s, trimmed, f) ==
  IF f.err # nil THEN Ret(s, "", f.err)
  ELSE IF ~f.found
  THEN Ret(s, "", "expected a file after a race function, got: " \o Quote(trimmed))
  ELSE Ret([s EXCEPT !.state = "gotRaceOperationFile"], "", nil)

scanGotRaceOperationFunc(s, line, trimmed) ==
  scanRaceOperationFile(s, trimmed, parseFile(ZeroCall, trimmed))

\* case gotRaceGoroutineFunc
\* f being what parseFile returned for the last call of cur.
scanRaceGoroutineFile(s, trimmed, f) ==
  IF f.err # nil THEN Ret(s, "", f.err)
  ELSE IF ~f.found
  THEN Ret(s, "", "expected a file after a race function, got: " \o Quote(trimmed))
  ELSE Ret([SetCur(s, [Cur(s) EXCEPT !.Stack.Calls[Len(Cur(s).Stack.Calls)] = f.c])
              EXCEPT !.state = "gotRaceGoroutineFile"],
           "", nil)

scanGotRaceGoroutineFunc(s, line, trimmed) ==
  scanRaceGoroutineFile(s, trimmed,
                        parseFile(Cur(s).Stack.Calls[Len(Cur(s).Stack.Calls)], trimmed))

\* case gotRaceOperationFile
scanGotRaceOperationFile(s, line, trimmed) ==
  IF trimmed = ""
  THEN Ret([s EXCEPT !.state = "betweenRaces"], "", nil)
  ELSE Ret(s, "", "expected an empty line after a race file, got: " \o Quote(trimmed))

\* case gotRaceGoroutineFile
scanGotRaceGoroutineFile(s, line, trimmed) ==
  LET f == parseFunc(ZeroCall, TrimLeft(trimmed, {"\t", " "}))
  IN  IF trimmed = ""
      THEN Ret([s EXCEPT !.state = "betweenRaces"], "", nil)
      ELSE IF trimmed = raceHeaderFooter
      THEN Ret([s EXCEPT !.state = "normal"], "", nil)
      ELSE IF f.found
      THEN Ret([s EXCEPT !.state = "gotRaceGoroutineFunc"], "", f.err)
      ELSE Ret(s, "", "expected a function or the end after a race file, got: "
                        \o Quote(trimmed))

\* case betweenRaces
scanBetweenRaces(s, line, trimmed) ==
  LET prev == reRacePreviousOperationHeader(trimmed)
      gor  == reRaceGoroutine(trimmed)
      id   == Atoi(gor.m1)
  IN  IF prev.ok
      THEN raceOperation(s, prev, prev.m1 = "write", trimmed)
      ELSE IF gor.ok
      THEN IF ~id.ok
           THEN Ret(s, "", "failed to parse goroutine id on line: "
                             \o Quote(TrimSpace(trimmed)))
           ELSE Ret([s EXCEPT !.goroutines =
                         Append(@, [Signature |-> [State |-> gor.m2, SleepMin |-> 0,
                                                   SleepMax |-> 0, Locked |-> FALSE],
                                    ID        |-> id.v,
                                    First     |-> Len(s.goroutines) = 0,
                                    Stack     |-> [Calls |-> <<>>, Elided |-> FALSE],
                                    CreatedBy |-> ZeroCall]),
                              !.state = "gotRaceGoroutineHeader"],
                    "", nil)
      ELSE Ret(s, "", "expected an operator or goroutine, got: " \o Quote(trimmed))

\* The line without its terminator ("\r\n" or "\n").
Trimmed(line) ==
  IF HasSuffix(line, "\r\n") THEN SubSeq(line, 1, Len(line) - 2)
  ELSE IF HasSuffix(line, "\n") THEN SubSeq(line, 1, Len(line) - 1)
  ELSE line

\* The switch of scan on s.state.
scanSwitch(s, line, trimmed) ==
  CASE s.state \in {"normal", "betweenRoutine"} -> scanNormal(s, line, trimmed)
    [] s.state = "gotRoutineHeader"        -> scanGotRoutineHeader(s, line, trimmed)
    [] s.state = "gotFunc"                 -> scanGotFunc(s, line, trimmed)
    [] s.state = "gotCreated"              -> scanGotCreated(s, line, trimmed)
    [] s.state = "gotFileFunc"             -> scanGotFileFunc(s, line, trimmed)
    [] s.state = "gotFileCreated"          -> scanGotFileCreated(s, line, trimmed)
    [] s.state = "gotUnavail"              -> scanGotUnavail(s, line, trimmed)
    [] s.state = "gotRaceHeader1"          -> scanGotRaceHeader1(s, line, trimmed)
    [] s.state = "gotRaceHeader"           -> scanGotRaceHeader(s, line, trimmed)
    [] s.state = "gotRaceOperationHeader"  -> scanGotRaceOperationHeader(s, line, trimmed)
    [] s.state = "gotRaceGoroutineHeader"  -> scanGotRaceGoroutineHeader(s, line, trimmed)
    [] s.state = "gotRaceOperationFunc"    -> scanGotRaceOperationFunc(s, line, trimmed)
    [] s.state = "gotRaceGoroutineFunc"    -> scanGotRaceGoroutineFunc(s, line, trimmed)
    [] s.state = "gotRaceOperationFile"    -> scanGotRaceOperationFile(s, line, trimmed)
    [] s.state = "gotRaceGoroutineFile"    -> scanGotRaceGoroutineFile(s, line, trimmed)
    [] s.state = "betweenRaces"            -> scanBetweenRaces(s, line, trimmed)
    [] OTHER                               -> Ret(s, "", "internal error")

\* scanPrefix keeping the prefix when the indentation is inconsistent.
scanPrefixKept(s, line, trimmed) ==
  IF trimmed # "" /\ s.prefix # "" /\ ~HasPrefix(trimmed, s.prefix)
  THEN Ret([s EXCEPT !.state = "normal"], "",
           "inconsistent indentation: " \o Quote(trimmed)
             \o ", expected " \o Quote(s.prefix))
  ELSE scanSwitch(s, line, IF trimmed # "" /\ s.prefix # ""
                           THEN Drop(trimmed, Len(s.prefix))
                           ELSE trimmed)

\* The indentation check of scan: a non-empty line, under a non-empty prefix,
\* must start with the prefix, which is then stripped.
scanPrefix(s, line, trimmed) ==
  IF trimmed # "" /\ s.prefix # "" /\ ~HasPrefix(trimmed, s.prefix)
  THEN Ret([s EXCEPT !.state = "normal", !.prefix = ""], "",
           "inconsistent indentation: " \o Quote(trimmed)
             \o ", expected " \o Quote(s.prefix))
  ELSE scanSwitch(s, line, IF trimmed # "" /\ s.prefix # ""
                           THEN Drop(trimmed, Len(s.prefix))
                           ELSE trimmed)

\* func (s *scanningState) scan(line string) (string, error)
scan(s, line) ==
  IF ~HasSuffix(line, "\n") /\ s.state = "normal"
  THEN Ret(s, line, nil)
  ELSE scanPrefix(s, line, Trimmed(line))

(***************************************************************************)
(* scanLines, parseDump and ParseDump as functions of the whole input.     *)
(***************************************************************************)
\* scanLines at the head of the unread data, the reader being at its end:
\* the token runs up to and including the first "\n", or to the end of the
\* data. (The inputs are shorter than bufio.MaxScanTokenSize.)
scanLines(data) ==
  LET i == Index(data, "\n")
  IN  IF data = "" THEN [advance |-> 0, token |-> ""]
      ELSE IF i > 0 THEN [advance |-> i, token |-> SubSeq(data, 1, i)]
      ELSE [advance |-> Len(data), token |-> data]

\* One iteration of the loop of parseDump on the token line: s and out
\* afterwards, and whether the loop returned (with err).
\* parseDumpWrite going on after an error.
parseDumpWriteGoesOn(r, o) ==
  [s    |-> r.s,
   out  |-> IF r.line # "" THEN Append(o, r.line) ELSE o,
   err  |-> r.err,
   done |-> FALSE]

\* What the iteration does with r, what scan returned: the text is written
\* to out, an error ends the loop.
parseDumpWrite(r, o) ==
  [s    |-> r.s,
   out  |-> IF r.line # "" THEN Append(o, r.line) ELSE o,
   err  |-> r.err,
   done |-> r.err # nil]

\* The same, from the call of scan on.
parseDumpStep(s, line, o) == parseDumpWrite(scan(s, line), o)

\* The loop of parseDump on the unread data. The reader does not fail:
\* scanner.Err() is nil at the end of the input.
RECURSIVE parseDumpLoop(_, _, _)

\* The loop after the iteration step on the token t of data.
parseDumpNext(t, data, step) ==
  IF step.done
  THEN [goroutines |-> step.s.goroutines, err |-> step.err, out |-> step.out]
  ELSE parseDumpLoop(step.s, Drop(data, t.advance), step.out)

parseDumpLoop(s, data, o) ==
  IF scanLines(data).advance = 0
  THEN [goroutines |-> s.goroutines, err |-> nil, out |-> o]
  ELSE parseDumpNext(scanLines(data), data, parseDumpStep(s, scanLines(data).token, o))

\* parseDump(r, out) for a reader r that holds data: race detection is off.
parseDump(data) == parseDumpLoop(ZeroState(FALSE), data, <<>>)

\* The *Context ParseDump returns for what parseDump returned, guesspaths
\* being false: <<>> is the nil *Context, <<c>> the Context c.
Context(gs) ==
  IF Len(gs) = 0 THEN <<>>
  ELSE <<[Goroutines |-> gs, GOROOT |-> "", GOPATHs |-> <<>>]>>

\* The concatenation of the strings written to out.
RECURSIVE Concat(_)
Concat(ss) == IF ss = <<>> THEN "" ELSE Head(ss) \o Concat(Tail(ss))

(***************************************************************************)
(* The state machines. ParseDump reads its input one token at a time; the  *)
(* variables are the scanningState of parseDump, what was written to out,  *)
(* and what ParseDump returned. The other variables record the input.      *)
(***************************************************************************)
VARIABLES
  raceDetectionEnabled, goroutines, state, prefix, races, \* the scanningState s
  out,            \* the strings written to out, in order
  err,            \* the error of the last scan; the error returned, once returned
  ctx,            \* the *Context returned: <<>> is nil
  pc,             \* "scanning", "returned"; "scan" and "parseFunc" for direct calls
  line,           \* the last token handed to scan, "" before the first
  nread,          \* the number of tokens handed to scan
  input,          \* the tokens read up to the first header-shaped line
  sawHeader,      \* some token read was a terminated goroutine header
  recognized,     \* the header lines that started a goroutine, in order
  afterIndentErr, \* an indentation error was met and no header recognized since
  blk,            \* the well-formed block being fed (SpecBlock)
  fields,         \* the arguments of the function called (SpecFunc, SpecRooted)
  res,            \* what the function called returned: <<>> before the call
  guesspaths,     \* the guesspaths ParseDump is called with
  host,           \* the host: GOROOT, GOPATHs and the regular files there
  statted,        \* the paths handed to isFile, in order
  rep             \* the race report being fed (SpecRace)

vars ==
  <<raceDetectionEnabled, goroutines, state, prefix, races, out, err, ctx, pc,
    line, nread, input, sawHeader, recognized, afterIndentErr, blk, fields, res,
    guesspaths, host, statted, rep>>

\* What ParseDump reads of its host when it guesses paths.
hostVars == <<guesspaths, host, statted>>

\* The scanningState s.
S ==
  [raceDetectionEnabled |-> raceDetectionEnabled,
   goroutines           |-> goroutines,
   state                |-> state,
   prefix               |-> prefix,
   races                |-> races]

\* s becomes t.
SetS(t) ==
  /\ raceDetectionEnabled' = t.raceDetectionEnabled
  /\ goroutines' = t.goroutines
  /\ state' = t.state
  /\ prefix' = t.prefix
  /\ races' = t.races

\* Bounds of the model.
MaxLines == 6

MaxOut == 2

MaxScans == 5

MaxPairs == 2

MaxFields == 3

\* The tokens the scanner hands to parseDump: each ends with its "\n", or is
\* the unterminated end of the input.
Lines ==
  {"goroutine 1 [running]:\n",
   "  goroutine 2 [chan receive, 5 minutes, locked to thread]:\n",
   "goroutine 99999999999999999999 [running]:\n",
   "main.f(1, 2, ...)\n",
   "  main.g()\r\n",
   "main.f(zz)\n",
   "\t/a/b.go:12 +0x35\n",
   "  \t/c.go:7\n",
   "\t/a/b.go:12",
   "created by main.h\n",
   "...additional frames elided...\n",
   "\tgoroutine running on other thread; stack unavailable\n",
   "\n",
   "panic: oops\n",
   "exit status 2"}

\* A terminated line with the shape of a goroutine header and a valid id.
IsHeaderLine(l) ==
  /\ HasSuffix(l, "\n")
  /\ reRoutineHeader(Trimmed(l)).ok
  /\ Atoi(reRoutineHeader(Trimmed(l)).m2).ok

NoBlock == [stage |-> "off", indent |-> "", calls |-> <<>>, created |-> <<>>]

\* A host that is not looked at.
NoHost == [localgoroot |-> "", localgopaths |-> <<>>, files |-> {}]

NoReport == [stage |-> "off", sections |-> 0, goroutines |-> <<>>, indent |-> ""]

\* s := scanningState{} with the given raceDetectionEnabled.
InitS(race) ==
  /\ raceDetectionEnabled = ZeroState(race).raceDetectionEnabled
  /\ goroutines = ZeroState(race).goroutines
  /\ state = ZeroState(race).state
  /\ prefix = ZeroState(race).prefix
  /\ races = ZeroState(race).races

InitCommon ==
  /\ out = <<>>
  /\ err = nil
  /\ ctx = <<>>
  /\ line = ""
  /\ nread = 0
  /\ input = <<>>
  /\ sawHeader = FALSE
  /\ recognized = <<>>
  /\ afterIndentErr = FALSE
  /\ fields = <<>>
  /\ res = <<>>
  /\ guesspaths = FALSE
  /\ host = NoHost
  /\ statted = <<>>

\* The record of the input after the token l was scanned and left t.
Recorded(l, t, e) ==
  /\ line' = l
  /\ nread' = nread + 1
  /\ sawHeader' = (sawHeader \/ IsHeaderLine(l))
  /\ input' = IF sawHeader \/ IsHeaderLine(l) THEN input ELSE Append(input, l)
  /\ recognized' = IF /\ e = nil
                      /\ state \in {"normal", "betweenRoutine"}
                      /\ t.state = "gotRoutineHeader"
                   THEN Append(recognized, l) ELSE recognized
  /\ afterIndentErr' = IF HasPrefix(e, "inconsistent indentation: ") THEN TRUE
                       ELSE IF /\ e = nil
                               /\ state \in {"normal", "betweenRoutine"}
                               /\ t.state = "gotRoutineHeader"
                       THEN FALSE ELSE afterIndentErr

\* ParseDump(r, out, false): one iteration of the loop of parseDump on the
\* next token l of r; when scan fails parseDump returns and so does ParseDump.
\* An unterminated token is the last of the input.
StepTo(l, step) ==
  /\ Len(step.out) <= MaxOut
  /\ SetS(step.s)
  /\ out' = step.out
  /\ err' = step.err
  /\ pc' = IF step.done THEN "returned" ELSE "scanning"
  /\ ctx' = IF step.done THEN Context(step.s.goroutines) ELSE ctx
  /\ Recorded(l, step.s, step.err)

Step(l) ==
  /\ pc = "scanning"
  /\ line = "" \/ HasSuffix(line, "\n")
  /\ StepTo(l, parseDumpStep(S, l, out))
  /\ UNCHANGED <<fields, res, hostVars, rep>>

\* ParseDump on any input: the next token is any line.
ScanLine ==
  /\ nread < MaxLines
  /\ \E l \in Lines : Step(l)
  /\ UNCHANGED blk

\* ParseDump(r, out, false): the scanner is at the end of r, parseDump returns
\* its goroutines and a nil error, ParseDump returns the Context.
EndOfInput ==
  /\ pc = "scanning"
  /\ pc' = "returned"
  /\ err' = nil
  /\ ctx' = Context(goroutines)
  /\ UNCHANGED <<raceDetectionEnabled, goroutines, state, prefix, races, out,
                 line, nread, input, sawHeader, recognized, afterIndentErr,
                 blk, fields, res, hostVars, rep>>

Init ==
  /\ InitS(FALSE)
  /\ InitCommon
  /\ pc = "scanning"
  /\ blk = NoBlock
  /\ rep = NoReport

Next == ScanLine \/ EndOfInput

Spec == Init /\ [][Next]_vars

(***************************************************************************)
(* scanningState.scan called directly, line after line, whatever it        *)
(* returned, with race detection on or off.                                *)
(***************************************************************************)
\* The lines given to scan: the lines of Lines whose fields parse, and the
\* two lines that open the report of a data race.
ScanLines ==
  (Lines \ {"\t/a/b.go:12", "main.f(zz)\n", "goroutine 99999999999999999999 [running]:\n"})
    \cup {raceHeaderFooter \o "\n", raceHeader \o "\n"}

\* The call scan(l) returned r: the caller keeps the text to pass through.
ScanTo(l, r) ==
  /\ Len(out) + (IF r.line # "" THEN 1 ELSE 0) <= MaxOut
  /\ SetS(r.s)
  /\ out' = IF r.line # "" THEN Append(out, r.line) ELSE out
  /\ err' = r.err
  /\ Recorded(l, r.s, r.err)

ScanCall ==
  /\ pc = "scan"
  /\ nread < MaxScans
  /\ \E l \in ScanLines : ScanTo(l, scan(S, l))
  /\ UNCHANGED <<ctx, pc, blk, fields, res, hostVars, rep>>

InitScan ==
  /\ \E race \in BOOLEAN : InitS(race)
  /\ InitCommon
  /\ pc = "scan"
  /\ blk = NoBlock
  /\ rep = NoReport

NextScan == ScanCall

SpecScan == InitScan /\ [][NextScan]_vars

(***************************************************************************)
(* ParseDump on a well-formed single block: a header, pairs of a function  *)
(* line and a file line, optionally a creation line and its file line, an  *)
(* empty line, every line behind the indentation of the header. blk holds  *)
(* the stage of the block and, for each function and creation line fed,    *)
(* the name, path and line number written in it.                           *)
(***************************************************************************)
Indents == {"", "  ", "\t"}

Terminators == {"\n", "\r\n"}

HeaderTexts ==
  {"goroutine 1 [running]:",
   "goroutine 7 [chan receive, 5 minutes, locked to thread]:"}

\* Function lines, with the function name written in each.
FuncTexts ==
  {[text |-> "main.f(1, 2, ...)", raw |-> "main.f"],
   [text |-> "main.(*T).g(0xc0de)", raw |-> "main.(*T).g"]}

\* File lines, with the path and the line number written in each.
FileTexts ==
  {[text |-> "\t/a/b.go:12 +0x35", path |-> "/a/b.go", num |-> 12],
   [text |-> "    /c/d.s:7 fp=0x1 sp=0x2", path |-> "/c/d.s", num |-> 7]}

CreatedTexts == {[text |-> "created by main.h", raw |-> "main.h"]}

\* A line of the block: a text behind the indentation of the block.
BlockLine(text, t) ==
  /\ \E term \in Terminators : Step(blk.indent \o text \o term)
  /\ blk' = t

FeedHeader ==
  /\ blk.stage = "header"
  /\ \E ind \in Indents, h \in HeaderTexts, term \in Terminators :
       /\ Step(ind \o h \o term)
       /\ blk' = [blk EXCEPT !.stage = "func", !.indent = ind]

FeedFunc ==
  /\ blk.stage \in {"func", "more"}
  /\ Len(blk.calls) < MaxPairs
  /\ \E f \in FuncTexts :
       BlockLine(f.text, [blk EXCEPT !.stage = "file",
                            !.calls = Append(@, [raw |-> f.raw, path |-> "", num |-> 0])])

FeedFile ==
  /\ blk.stage = "file"
  /\ \E f \in FileTexts :
       BlockLine(f.text, [blk EXCEPT !.stage = "more",
                            !.calls[Len(blk.calls)].path = f.path,
                            !.calls[Len(blk.calls)].num = f.num])

FeedCreated ==
  /\ blk.stage = "more"
  /\ \E c \in CreatedTexts :
       BlockLine(c.text, [blk EXCEPT !.stage = "createdfile",
                            !.created = <<[raw |-> c.raw, path |-> "", num |-> 0]>>])

FeedCreatedFile ==
  /\ blk.stage = "createdfile"
  /\ \E f \in FileTexts :
       BlockLine(f.text, [blk EXCEPT !.stage = "last",
                            !.created[1].path = f.path,
                            !.created[1].num = f.num])

FeedEmpty ==
  /\ blk.stage \in {"more", "last"}
  /\ BlockLine("", [blk EXCEPT !.stage = "end"])

\* The block is complete: the input ends.
EndOfBlock ==
  /\ blk.stage = "end"
  /\ EndOfInput

InitBlock ==
  /\ InitS(FALSE)
  /\ InitCommon
  /\ pc = "scanning"
  /\ blk = [NoBlock EXCEPT !.stage = "header"]
  /\ rep = NoReport

NextBlock ==
  \/ FeedHeader
  \/ FeedFunc
  \/ FeedFile
  \/ FeedCreated
  \/ FeedCreatedFile
  \/ FeedEmpty
  \/ EndOfBlock

SpecBlock == InitBlock /\ [][NextBlock]_vars

(***************************************************************************)
(* parseFunc called on a function line whose argument list is a sequence   *)
(* of fields joined by ", ".                                               *)
(***************************************************************************)
\* Argument fields, with the kind of each and the number a numeric one denotes.
FieldTexts ==
  {[text |-> "1",    kind |-> "number", val |-> 1],
   [text |-> "2",    kind |-> "number", val |-> 2],
   [text |-> "0x1f", kind |-> "number", val |-> 31],
   [text |-> "...",  kind |-> "dots",   val |-> 0],
   [text |-> "",     kind |-> "empty",  val |-> 0],
   [text |-> "zz",   kind |-> "other",  val |-> 0]}

RECURSIVE Join(_, _)
Join(ss, sep) ==
  IF ss = <<>> THEN ""
  ELSE IF Len(ss) = 1 THEN ss[1]
  ELSE ss[1] \o sep \o Join(Tail(ss), sep)

\* The function line made of the fields.
FuncLine(fs) == "main.f(" \o Join([i \in DOMAIN fs |-> fs[i].text], ", ") \o ")"

ParseFuncCall ==
  /\ pc = "parseFunc"
  /\ res = <<>>
  /\ res' = <<parseFunc(ZeroCall, FuncLine(fields))>>
  /\ pc' = "parsed"
  /\ UNCHANGED <<raceDetectionEnabled, goroutines, state, prefix, races, out, err,
                 ctx, line, nread, input, sawHeader, recognized, afterIndentErr,
                 blk, fields, hostVars, rep>>

InitFunc ==
  /\ InitS(FALSE)
  /\ out = <<>>
  /\ err = nil
  /\ ctx = <<>>
  /\ line = ""
  /\ nread = 0
  /\ input = <<>>
  /\ sawHeader = FALSE
  /\ recognized = <<>>
  /\ afterIndentErr = FALSE
  /\ blk = NoBlock
  /\ guesspaths = FALSE
  /\ host = NoHost
  /\ statted = <<>>
  /\ rep = NoReport
  /\ pc = "parseFunc"
  /\ \E n \in 0..MaxFields : fields \in [1..n -> FieldTexts]
  /\ res = <<>>

NextFunc == ParseFuncCall

SpecFunc == InitFunc /\ [][NextFunc]_vars

(***************************************************************************)
(* The guess of GOROOT and GOPATH: ParseDump, once parseDump returned the  *)
(* goroutines, looks on the host for the files of the calls. The host is   *)
(* its GOROOT, its GOPATHs and the set of the paths that are regular files *)
(* there.                                                                  *)
(***************************************************************************)
\* The characters of a path in the order of their bytes, as sort.Strings
\* compares them.
ByteOrder == "*-./0123456789<>?ABCDEFGHIJKLMNOPQRSTUVWXYZ_abcdefghijklmnopqrstuvwxyz"

\* a < b as strings.
RECURSIVE StringLess(_, _)
StringLess(a, b) ==
  IF b = "" THEN FALSE
  ELSE IF a = "" THEN TRUE
  ELSE IF Char(a, 1) # Char(b, 1)
       THEN Index(ByteOrder, Char(a, 1)) < Index(ByteOrder, Char(b, 1))
       ELSE StringLess(Drop(a, 1), Drop(b, 1))

\* sort.Strings of the elements of a set.
RECURSIVE SortStrings(_)
SortStrings(set) ==
  IF set = {} THEN <<>>
  ELSE LET least == CHOOSE x \in set : \A y \in set \ {x} : StringLess(x, y)
       IN  <<least>> \o SortStrings(set \ {least})

\* The source files of the calls of the stacks, deduped and ordered.
getFiles(gs) ==
  SortStrings(UNION {{gs[i].Stack.Calls[j].SrcPath : j \in 1..Len(gs[i].Stack.Calls)} :
                       i \in 1..Len(gs)})

\* The loop of splitPath from the character i of p: s is the component
\* being read, parts the components read.
RECURSIVE splitPathFrom(_, _, _, _)
splitPathFrom(p, i, s, parts) ==
  IF i > Len(p) THEN (IF s # "" THEN Append(parts, s) ELSE parts)
  ELSE IF \/ Char(p, i) # "/"
          \/ (parts = <<>> /\ \A k \in 1..Len(s) : Char(s, k) = "/")
  THEN splitPathFrom(p, i + 1, s \o Char(p, i), parts)
  ELSE IF s # "" THEN splitPathFrom(p, i + 1, "", Append(parts, s))
  ELSE splitPathFrom(p, i + 1, s, parts)

\* The components of a path; the first one keeps its leading separators.
splitPath(p) == IF p = "" THEN <<>> ELSE splitPathFrom(p, 1, "", <<>>)

\* pathJoin joins the elements with "/".
pathJoin(ss) == Join(ss, "/")

\* os.Stat finds p and p is not a directory.
isFile(p) == p \in host.files

\* The path rootedIn looks for when it drops the first i components of parts.
rootedInPath(root, parts, i) ==
  pathJoin(<<root, pathJoin(SubSeq(parts, i + 1, Len(parts)))>>)

\* rootedIn keeping the last drop count that matches.
RECURSIVE rootedInLastFrom(_, _, _)
rootedInLastFrom(root, parts, i) ==
  IF i >= Len(parts) THEN ""
  ELSE IF rootedInLastFrom(root, parts, i + 1) # ""
  THEN rootedInLastFrom(root, parts, i + 1)
  ELSE IF isFile(rootedInPath(root, parts, i))
  THEN pathJoin(SubSeq(parts, 1, i))
  ELSE ""

\* The loop of rootedIn from the drop count i.
RECURSIVE rootedInFrom(_, _, _)
rootedInFrom(root, parts, i) ==
  IF i >= Len(parts) THEN ""
  ELSE IF isFile(rootedInPath(root, parts, i))
  THEN pathJoin(SubSeq(parts, 1, i))
  ELSE rootedInFrom(root, parts, i + 1)

\* rootedIn returns a root if the file split in parts is rooted in root.
rootedIn(root, parts) == rootedInFrom(root, parts, 1)

\* The paths rootedIn hands to isFile, in order, from the drop count i.
RECURSIVE rootedInStats(_, _, _)
rootedInStats(root, parts, i) ==
  IF i >= Len(parts) THEN <<>>
  ELSE IF isFile(rootedInPath(root, parts, i))
  THEN <<rootedInPath(root, parts, i)>>
  ELSE <<rootedInPath(root, parts, i)>> \o rootedInStats(root, parts, i + 1)

\* Some key of the map s, with "/src/" or "/pkg/mod/", is a prefix of p.
hasSrcPrefix(p, s) ==
  \E pfx \in DOMAIN s :
    HasPrefix(p, pfx \o "/src/") \/ HasPrefix(p, pfx \o "/pkg/mod/")

\* m[k] = v on a map.
MapSet(m, k, v) == [x \in DOMAIN m \cup {k} |-> IF x = k THEN v ELSE m[x]]

\* findRoots is at t: the Context c, the paths handed to isFile and whether
\* a slice expression r[:len(r)-n] panicked. t after the paths of one more
\* call of rootedIn were handed to isFile.
Looked(t, root, parts) == [t EXCEPT !.statted = @ \o rootedInStats(root, parts, 1)]

\* t after r[:len(r)-n] was stored as GOROOT.
SetGOROOT(t, r, n) ==
  IF Len(r) < n THEN [t EXCEPT !.panicked = TRUE]
  ELSE [t EXCEPT !.c.GOROOT = SubSeq(r, 1, Len(r) - n)]

\* t after r[:len(r)-n] was mapped to l in GOPATHs.
SetGOPATH(t, r, n, l) ==
  IF Len(r) < n THEN [t EXCEPT !.panicked = TRUE]
  ELSE [t EXCEPT !.c.GOPATHs = MapSet(@, SubSeq(r, 1, Len(r) - n), l)]

\* The loop of findRoots over localgopaths, from the k-th of them, for the
\* file split in parts.
RECURSIVE findRootsPaths(_, _, _)
findRootsMod(t, parts, k, l, r) ==
  IF r # "" THEN SetGOPATH(Looked(t, l \o "/pkg/mod", parts), r, 8, l)
  ELSE findRootsPaths(Looked(t, l \o "/pkg/mod", parts), parts, k + 1)

findRootsSrc(t, parts, k, l, r) ==
  IF r # "" THEN SetGOPATH(Looked(t, l \o "/src", parts), r, 4, l)
  ELSE findRootsMod(Looked(t, l \o "/src", parts), parts, k, l,
                    rootedIn(l \o "/pkg/mod", parts))

findRootsPath(t, parts, k, l) ==
  findRootsSrc(t, parts, k, l, rootedIn(l \o "/src", parts))

findRootsPaths(t, parts, k) ==
  IF k > Len(t.c.localgopaths) THEN t
  ELSE findRootsPath(t, parts, k, t.c.localgopaths[k])

\* The file split in parts is looked for under localgoroot, GOROOT being
\* empty; r is what rootedIn returned.
findRootsGoroot(t, parts, r) ==
  IF r # "" THEN SetGOROOT(Looked(t, t.c.localgoroot \o "/src", parts), r, 4)
  ELSE findRootsPaths(Looked(t, t.c.localgoroot \o "/src", parts), parts, 1)

findRootsSplit(t, parts) ==
  IF t.c.GOROOT = ""
  THEN findRootsGoroot(t, parts, rootedIn(t.c.localgoroot \o "/src", parts))
  ELSE findRootsPaths(t, parts, 1)

\* The body of the loop of findRoots for the file f.
findRootsFile(t, f) ==
  IF t.panicked THEN t
  ELSE IF t.c.GOROOT # "" /\ HasPrefix(f, t.c.GOROOT \o "/src/") THEN t
  ELSE IF hasSrcPrefix(f, t.c.GOPATHs) THEN t
  ELSE findRootsSplit(t, splitPath(f))

RECURSIVE findRootsLoop(_, _, _)
findRootsLoop(t, files, i) ==
  IF i > Len(files) THEN t
  ELSE findRootsLoop(findRootsFile(t, files[i]), files, i + 1)

\* findRoots sets GOROOT and GOPATHs of c.
findRoots(c) ==
  findRootsLoop([c |-> [c EXCEPT !.GOPATHs = <<>>], statted |-> <<>>, panicked |-> FALSE],
                getFiles(c.Goroutines), 1)

\* c := &Context{...} of ParseDump, for the goroutines gs.
NewContext(gs) ==
  [Goroutines |-> gs, GOROOT |-> "", GOPATHs |-> <<>>,
   localgoroot |-> host.localgoroot, localgopaths |-> host.localgopaths]

\* ParseDump guessing the paths whatever guesspaths is.
ParseDumpGuessAlways(gs, guess) == findRoots(NewContext(gs))

\* ParseDump once parseDump returned the goroutines gs, one at least: the
\* Context is made and, if guesspaths, findRoots looks for its roots.
ParseDumpGuess(gs, guess) ==
  IF guess THEN findRoots(NewContext(gs))
  ELSE [c |-> NewContext(gs), statted |-> <<>>, panicked |-> FALSE]

\* Bounds of the guess.
MaxPaths == 2

\* The paths of the calls.
SrcPaths ==
  {"/remote/src/pkg/sub/file.go",
   "/remote/foo/pkg/sub/file.go",
   "/gp/src/x/y.go",
   "/gp/pkg/mod/x/y.go",
   "/a/y.go",
   "/a/x/y.go",
   "main.go"}

\* The regular files there may be on the host.
HostFiles ==
  {"/usr/go/src/pkg/sub/file.go",
   "/usr/go/src/sub/file.go",
   "/usr/go/src/y.go",
   "/home/u/go/src/x/y.go",
   "/home/u/go/pkg/mod/x/y.go",
   "/home/u/go/src/pkg/sub/file.go",
   "/w/src/x/y.go"}

\* The goroutines parseDump may have returned: one goroutine for each path.
GoroutineAt(p, first) ==
  [Signature |-> [State |-> "running", SleepMin |-> 0, SleepMax |-> 0, Locked |-> FALSE],
   ID        |-> 1,
   First     |-> first,
   Stack     |-> [Calls |-> <<[ZeroCall EXCEPT !.Func.Raw = "main.f", !.SrcPath = p,
                                                !.Line = 12]>>,
                  Elided |-> FALSE],
   CreatedBy |-> ZeroCall]

\* ParseDump returns: nil when there is no goroutine, the Context if not.
ParseDumpReturn(t) ==
  /\ pc' = IF t.panicked THEN "panicked" ELSE "returned"
  /\ ctx' = IF t.panicked THEN <<>>
            ELSE <<[Goroutines |-> t.c.Goroutines, GOROOT |-> t.c.GOROOT,
                    GOPATHs |-> t.c.GOPATHs]>>
  /\ statted' = t.statted

ParseDumpNil ==
  /\ pc = "parsed"
  /\ goroutines = <<>>
  /\ pc' = "returned"
  /\ UNCHANGED <<raceDetectionEnabled, goroutines, state, prefix, races, out, err,
                 ctx, line, nread, input, sawHeader, recognized, afterIndentErr,
                 blk, fields, res, hostVars, rep>>

ParseDumpContext ==
  /\ pc = "parsed"
  /\ goroutines # <<>>
  /\ ParseDumpReturn(ParseDumpGuess(goroutines, guesspaths))
  /\ UNCHANGED <<raceDetectionEnabled, goroutines, state, prefix, races, out, err,
                 line, nread, input, sawHeader, recognized, afterIndentErr,
                 blk, fields, res, guesspaths, host, rep>>

InitRoots ==
  /\ raceDetectionEnabled = FALSE
  /\ \E n \in 0..MaxPaths : \E ps \in [1..n -> SrcPaths] :
       goroutines = [i \in 1..n |-> GoroutineAt(ps[i], i = 1)]
  /\ state = "normal"
  /\ prefix = ""
  /\ races = <<>>
  /\ out = <<>>
  /\ err = nil
  /\ ctx = <<>>
  /\ pc = "parsed"
  /\ line = ""
  /\ nread = 0
  /\ input = <<>>
  /\ sawHeader = FALSE
  /\ recognized = <<>>
  /\ afterIndentErr = FALSE
  /\ blk = NoBlock
  /\ fields = <<>>
  /\ res = <<>>
  /\ guesspaths \in BOOLEAN
  /\ \E fs \in SUBSET HostFiles :
       host = [localgoroot |-> "/usr/go", localgopaths |-> <<"/w", "/home/u/go">>, files |-> fs]
  /\ statted = <<>>
  /\ rep = NoReport

NextRoots == ParseDumpNil \/ ParseDumpContext

SpecRoots == InitRoots /\ [][NextRoots]_vars

(***************************************************************************)
(* rootedIn called on a root of the host and the components of a path.     *)
(***************************************************************************)
\* The roots findRoots hands to rootedIn on this host.
Roots == {"/usr/go/src", "/w/src", "/w/pkg/mod", "/home/u/go/src", "/home/u/go/pkg/mod"}

RootedInCall ==
  /\ pc = "rootedIn"
  /\ res = <<>>
  /\ res' = <<rootedIn(fields[1], fields[2])>>
  /\ statted' = rootedInStats(fields[1], fields[2], 1)
  /\ pc' = "returned"
  /\ UNCHANGED <<raceDetectionEnabled, goroutines, state, prefix, races, out, err,
                 ctx, line, nread, input, sawHeader, recognized, afterIndentErr,
                 blk, fields, guesspaths, host, rep>>

InitRooted ==
  /\ InitS(FALSE)
  /\ out = <<>>
  /\ err = nil
  /\ ctx = <<>>
  /\ line = ""
  /\ nread = 0
  /\ input = <<>>
  /\ sawHeader = FALSE
  /\ recognized = <<>>
  /\ afterIndentErr = FALSE
  /\ blk = NoBlock
  /\ guesspaths = TRUE
  /\ \E fs \in SUBSET HostFiles :
       host = [localgoroot |-> "/usr/go", localgopaths |-> <<"/w", "/home/u/go">>, files |-> fs]
  /\ statted = <<>>
  /\ rep = NoReport
  /\ pc = "rootedIn"
  /\ \E root \in Roots, p \in SrcPaths : fields = <<root, splitPath(p)>>
  /\ res = <<>>

NextRooted == RootedInCall

SpecRooted == InitRooted /\ [][NextRooted]_vars

(***************************************************************************)
(* The report of a data race. Its lines are given to ParseDump, which      *)
(* scans with race detection off (SpecOff), and to scan with race          *)
(* detection on, in the order of a report and until scan returns an error  *)
(* (SpecRace): the separator, the warning, the first operation, then       *)
(* sections, each after an empty line, and the closing separator; every    *)
(* operation and every goroutine has a stack of one function line and one  *)
(* file line. rep holds the stage of the report, the number of sections    *)
(* fed and the goroutines as they were when the report began.              *)
(***************************************************************************)
MaxSections == 2

OperationTexts == {"Write at 0x1f by goroutine 7:", "Read at 0x00c0de by goroutine 12:"}

PreviousTexts ==
  {"Previous write at 0x1f by goroutine 6:",
   "Previous read at 0x1f by main goroutine:"}

RaceGoroutineTexts ==
  {"Goroutine 7 (running) created at:", "Goroutine 6 (finished) created at:"}

RaceFuncTexts == {"  main.f()", "  main.(*T).g(0x1f)"}

RaceFileTexts == {"      /a/b.go:12 +0x35"}

\* Lines of a report and of a dump, for ParseDump.
ReportLines ==
  {raceHeaderFooter \o "\n",
   raceHeader \o "\n",
   "Write at 0x1f by goroutine 7:\n",
   "  main.f()\n",
   "      /a/b.go:12 +0x35\n",
   "Goroutine 7 (running) created at:\n",
   "\n",
   "goroutine 1 [running]:\n"}

\* ParseDump on the lines of a report: the next token is any of them.
ScanReportLine ==
  /\ nread < MaxLines
  /\ \E l \in ReportLines : Step(l)
  /\ UNCHANGED blk

NextOff == ScanReportLine \/ EndOfInput

SpecOff == Init /\ [][NextOff]_vars

\* scan is called with the next line of the report, and the report is at t.
ReportLine(text, t) ==
  /\ pc = "scan"
  /\ err = nil
  /\ ScanTo(rep.indent \o text \o "\n", scan(S, rep.indent \o text \o "\n"))
  /\ rep' = t
  /\ UNCHANGED <<ctx, pc, blk, fields, res, hostVars>>

FeedSeparator ==
  /\ rep.stage = "open"
  /\ ReportLine(raceHeaderFooter, [rep EXCEPT !.stage = "warning", !.goroutines = goroutines])

FeedWarning ==
  /\ rep.stage = "warning"
  /\ ReportLine(raceHeader, [rep EXCEPT !.stage = "operation"])

FeedOperation ==
  /\ rep.stage = "operation"
  /\ \E h \in OperationTexts : ReportLine(h, [rep EXCEPT !.stage = "func"])

FeedRaceFunc ==
  /\ rep.stage = "func"
  /\ \E f \in RaceFuncTexts : ReportLine(f, [rep EXCEPT !.stage = "file"])

FeedRaceFile ==
  /\ rep.stage = "file"
  /\ \E f \in RaceFileTexts : ReportLine(f, [rep EXCEPT !.stage = "after"])

FeedRaceEmpty ==
  /\ rep.stage = "after"
  /\ rep.sections < MaxSections
  /\ ReportLine("", [rep EXCEPT !.stage = "section"])

FeedSection ==
  /\ rep.stage = "section"
  /\ \E h \in PreviousTexts \cup RaceGoroutineTexts :
       ReportLine(h, [rep EXCEPT !.stage = "func", !.sections = @ + 1])

FeedFooter ==
  /\ rep.stage = "after"
  /\ ReportLine(raceHeaderFooter, [rep EXCEPT !.stage = "closed"])

\* Where scan is when the report begins: before any goroutine, after a
\* goroutine and a line passed through, or right after the block of a
\* goroutine whose lines were indented, its empty line read; the lines of
\* the report have the indentation of what precedes them.
ReportStarts ==
  {[goroutines |-> <<>>, state |-> "normal", prefix |-> ""],
   [goroutines |-> <<GoroutineAt("/a/b.go", TRUE)>>, state |-> "normal", prefix |-> ""],
   [goroutines |-> <<GoroutineAt("/a/b.go", TRUE)>>, state |-> "betweenRoutine",
    prefix |-> "  "]}

InitRace ==
  /\ raceDetectionEnabled = TRUE
  /\ \E b \in ReportStarts :
       /\ goroutines = b.goroutines
       /\ state = b.state
       /\ prefix = b.prefix
       /\ rep = [NoReport EXCEPT !.stage = "open", !.indent = b.prefix]
  /\ races = <<>>
  /\ InitCommon
  /\ pc = "scan"
  /\ blk = NoBlock

NextRace ==
  \/ FeedSeparator
  \/ FeedWarning
  \/ FeedOperation
  \/ FeedRaceFunc
  \/ FeedRaceFile
  \/ FeedRaceEmpty
  \/ FeedSection
  \/ FeedFooter

SpecRace == InitRace /\ [][NextRace]_vars

(***************************************************************************)
(* Properties of ParseDump on any input (Spec).                            *)
(***************************************************************************)
\* C1: when no line of the input is a goroutine header, ParseDump records no
\* goroutine, returns a nil Context and no error, and what was written to
\* out is the input, token for token, terminators and an unterminated last
\* line included.
C1_PassthroughIdentity ==
  ~sawHeader =>
    /\ goroutines = <<>>
    /\ err = nil
    /\ out = input
    /\ Concat(out) = Concat(input)
    /\ pc = "returned" => ctx = <<>>

\* An input of two lines of junk, the last one unterminated, was passed through.
C1_Witness ==
  /\ pc = "returned"
  /\ ~sawHeader
  /\ Len(input) >= 2
  /\ ~HasSuffix(out[Len(out)], "\n")
  /\ HasSuffix(out[1], "\n")

\* C3: the text ParseDump wrote to out, parsed again by parseDump, holds no
\* goroutine.
C3_PassthroughReparsesToNothing ==
  pc = "returned" => Len(parseDump(Concat(out)).goroutines) = 0

\* The line l as the switch of scan sees it under the prefix pfx: without
\* its terminator and without the prefix.
Stripped(l, pfx) ==
  IF Trimmed(l) # "" /\ pfx # "" THEN Drop(Trimmed(l), Len(pfx)) ELSE Trimmed(l)

\* The step wrote the line it read, unchanged, at the end of out.
LineWritten ==
  /\ out' = Append(out, line')
  /\ err' = nil
  /\ goroutines' = goroutines

\* The step consumed the line x as a part of a block: a header, a function
\* line, a file line, a creation line, the elision marker, the unavailable
\* marker or the empty line that ends the block.
LineConsumed(x) ==
  /\ out' = out
  /\ err' = nil
  /\ \/ state' = "gotRoutineHeader" /\ reRoutineHeader(x).ok
     \/ state' = "gotFunc" /\ reFunc(x).ok
     \/ state' = "gotFileFunc" /\ (reFile(x).ok \/ x = elided)
     \/ state' = "gotCreated" /\ reCreated(x).ok
     \/ state' = "gotFileCreated" /\ reFile(x).ok
     \/ state' = "gotUnavail" /\ reUnavail(x)
     \/ state' = "betweenRoutine" /\ x = ""

\* The step failed on the line it read: the error is returned, the line is
\* not written and it is the last line read.
LineFailed ==
  /\ err' # nil
  /\ out' = out
  /\ pc' = "returned"

\* C4, as stated: every line read is consumed as a part of a recognized
\* block or written unchanged to out, in input order.
C4_EveryLineConsumedOrWritten ==
  [][nread' = nread + 1 => LineWritten \/ LineConsumed(Stripped(line', prefix))]_vars

\* C4, amended: every line read is consumed as a part of a recognized block,
\* or written unchanged at the end of out, or it is the line on which scan
\* returned an error, which is neither written nor followed by another line.
C4_EveryLineConsumedWrittenOrFailed ==
  [][nread' = nread + 1 =>
       LineWritten \/ LineConsumed(Stripped(line', prefix)) \/ LineFailed]_vars

\* Junk was written before and after a block, whose lines were consumed.
C4_Witness ==
  /\ Len(out) = 2
  /\ Len(goroutines) = 1
  /\ goroutines[1].Stack.Calls # <<>>
  /\ input = <<out[1]>>
  /\ state = "normal"

\* The goroutines are the units of the recognized headers, in order.
UnitsOfHeaders(gs, hs) ==
  /\ Len(gs) = Len(hs)
  /\ \A i \in 1..Len(hs) :
       /\ gs[i].ID = Atoi(reRoutineHeader(Trimmed(hs[i])).m2).v
       /\ gs[i].First = (i = 1)

\* C5: once scan returned an error parseDump has returned: no other line is
\* read, written or applied; the goroutines returned with the error are the
\* units of the headers recognized before the failure, in order, and the
\* Context is not nil as soon as there is one.
C5_ErrorStopsTheScan ==
  /\ [](err # nil =>
          /\ pc = "returned"
          /\ UnitsOfHeaders(goroutines, recognized)
          /\ goroutines # <<>> =>
               ctx = <<[Goroutines |-> goroutines, GOROOT |-> "", GOPATHs |-> <<>>]>>
          /\ goroutines = <<>> => ctx = <<>>)
  /\ [][err # nil => UNCHANGED <<nread, out, goroutines, state, prefix, ctx, err>>]_vars

\* A scan failed after two units were collected.
C5_Witness ==
  /\ err # nil
  /\ pc = "returned"
  /\ Len(goroutines) = 2
  /\ goroutines[1].Stack.Calls # <<>>

\* The stack of g, when it holds the Call of the unavailable marker, holds
\* that Call alone, without line number.
UnavailableIsAlone(g) ==
  (\E j \in 1..Len(g.Stack.Calls) : g.Stack.Calls[j].SrcPath = "<unavailable>") =>
    g.Stack.Calls = <<[ZeroCall EXCEPT !.SrcPath = "<unavailable>"]>>

\* C8, as stated: every goroutine returned has a non-empty Stack.Calls, and
\* a goroutine whose stack is unavailable holds exactly the one Call
\* "<unavailable>" without line number.
C8_StacksAreNotEmpty ==
  pc = "returned" =>
    \A i \in 1..Len(goroutines) :
      /\ goroutines[i].Stack.Calls # <<>>
      /\ UnavailableIsAlone(goroutines[i])

\* C8, amended: a goroutine returned has a non-empty Stack.Calls unless it is
\* the last one and the input ended, or scan failed, on the line after its
\* header; a goroutine whose stack is unavailable holds exactly the one Call
\* "<unavailable>" without line number, also after its creation lines.
C8_StacksAreNotEmptyButAfterHeader ==
  pc = "returned" =>
    \A i \in 1..Len(goroutines) :
      /\ goroutines[i].Stack.Calls = <<>> =>
           /\ i = Len(goroutines)
           /\ \/ state = "gotRoutineHeader"
              \/ HasPrefix(err, "inconsistent indentation: ")
      /\ UnavailableIsAlone(goroutines[i])

\* An unavailable stack with its creation site was returned.
C8_Witness ==
  /\ pc = "returned"
  /\ Len(goroutines) >= 1
  /\ goroutines[1].Stack.Calls = <<[ZeroCall EXCEPT !.SrcPath = "<unavailable>"]>>
  /\ goroutines[1].CreatedBy.SrcPath # ""
  /\ state = "betweenRoutine"

\* C9: no function line is appended to a stack after its elision marker:
\* once Stack.Elided is true the calls of the stack do not change, so the
\* marker was recognized right after the file line of the last call.
C9_ElidedIsAfterTheLastCall ==
  [][\A i \in 1..Len(goroutines) :
       goroutines[i].Stack.Elided =>
         goroutines'[i].Stack.Calls = goroutines[i].Stack.Calls]_vars

\* C10: CreatedBy is set at most once per goroutine: a creation line is
\* accepted only for a goroutine whose CreatedBy is still empty, its function
\* never changes afterwards, and once its file line is parsed no line changes
\* CreatedBy.
C10_CreatedByIsSetOnce ==
  [][/\ \A i \in 1..Len(goroutines) :
          /\ goroutines[i].CreatedBy.Func.Raw # "" =>
               goroutines'[i].CreatedBy.Func.Raw = goroutines[i].CreatedBy.Func.Raw
          /\ goroutines[i].CreatedBy.SrcPath # "" =>
               goroutines'[i].CreatedBy = goroutines[i].CreatedBy
     /\ (nread' = nread + 1 /\ err' = nil /\ state' = "gotCreated") =>
          /\ goroutines # <<>>
          /\ goroutines[Len(goroutines)].CreatedBy = ZeroCall
          /\ Len(goroutines') = Len(goroutines)]_vars

\* A goroutine with its creation site is followed by another goroutine.
C10_Witness ==
  /\ Len(goroutines) = 2
  /\ goroutines[1].CreatedBy.Func.Raw = "main.h"
  /\ goroutines[1].CreatedBy.SrcPath # ""
  /\ state = "gotRoutineHeader"

(***************************************************************************)
(* Properties of ParseDump on a well-formed single block (SpecBlock).      *)
(***************************************************************************)
\* The call c carries the name, path and line number written in w.
CallIs(c, w) ==
  /\ c.Func.Raw = w.raw
  /\ c.SrcPath = w.path
  /\ c.Line = w.num

\* C2: after a well-formed single block (header, n >= 1 function and file
\* pairs, optionally a creation line and its file line, an empty line)
\* ParseDump returns exactly one goroutine whose Stack.Calls are the n
\* calls in input order, each with the path and line of its own file line,
\* CreatedBy being set if and only if the creation lines were present; there
\* is no error and nothing was written to out.
C2_WellFormedBlock ==
  (pc = "returned" /\ blk.stage = "end") =>
    /\ err = nil
    /\ out = <<>>
    /\ Len(goroutines) = 1
    /\ ctx = <<[Goroutines |-> goroutines, GOROOT |-> "", GOPATHs |-> <<>>]>>
    /\ Len(goroutines[1].Stack.Calls) = Len(blk.calls)
    /\ \A i \in 1..Len(blk.calls) : CallIs(goroutines[1].Stack.Calls[i], blk.calls[i])
    /\ blk.created = <<>> => goroutines[1].CreatedBy = ZeroCall
    /\ blk.created # <<>> => CallIs(goroutines[1].CreatedBy, blk.created[1])

\* An indented block of two different calls and a creation site was parsed.
C2_Witness ==
  /\ pc = "returned"
  /\ blk.stage = "end"
  /\ blk.indent = "  "
  /\ Len(blk.calls) = 2
  /\ blk.calls[1] # blk.calls[2]
  /\ blk.created # <<>>

(***************************************************************************)
(* Properties of scanningState.scan called line after line (SpecScan).     *)
(***************************************************************************)
\* The leading whitespace of a line.
LeadingSpace(l) == SubSeq(l, 1, LeadingCount(l, {" ", "\t"}))

\* The step recognized a header.
HeaderRecognized == recognized' # recognized

\* C6: inside a block whose header was indented by a non-empty prefix, a
\* non-empty line that does not start with the prefix makes scan return the
\* "inconsistent indentation" error, reset the state to normal and clear the
\* prefix, and the line is added to no stack nor passed through; the next
\* header recognized after it starts a fresh goroutine, at the end of the
\* goroutines and leaving the others as they were, under the indentation of
\* that header.
C6_IndentationMismatch ==
  [][nread' = nread + 1 =>
       /\ (/\ state # "normal"
           /\ prefix # ""
           /\ Trimmed(line') # ""
           /\ ~HasPrefix(Trimmed(line'), prefix)) =>
            /\ HasPrefix(err', "inconsistent indentation: ")
            /\ state' = "normal"
            /\ prefix' = ""
            /\ goroutines' = goroutines
            /\ out' = out
       /\ (afterIndentErr /\ HeaderRecognized) =>
            /\ err' = nil
            /\ state' = "gotRoutineHeader"
            /\ prefix' = LeadingSpace(line')
            /\ Len(goroutines') = Len(goroutines) + 1
            /\ SubSeq(goroutines', 1, Len(goroutines)) = goroutines
            /\ goroutines'[Len(goroutines')].Stack = [Calls |-> <<>>, Elided |-> FALSE]
            /\ goroutines'[Len(goroutines')].CreatedBy = ZeroCall
            /\ goroutines'[Len(goroutines')].ID =
                 Atoi(reRoutineHeader(Trimmed(line')).m2).v]_vars

\* After an indentation error in the block of a first goroutine, a second
\* block, indented, had its function line and its file line parsed.
C6_Witness ==
  /\ Len(goroutines) = 2
  /\ goroutines[1].Stack.Calls = <<>>
  /\ ~afterIndentErr
  /\ state = "gotFileFunc"
  /\ prefix = "  "
  /\ goroutines[2].Stack.Calls[1].Func.Raw = "main.g"
  /\ goroutines[2].Stack.Calls[1].SrcPath = "/c.go"

(***************************************************************************)
(* Properties of parseFunc (SpecFunc).                                     *)
(***************************************************************************)
\* The index of the first field that is empty or is neither a number nor
\* "...", Len(fs) + 1 when there is none.
FirstStop(fs) ==
  LET stops == {i \in 1..Len(fs) : fs[i].kind \in {"empty", "other"}}
  IN  IF stops = {} THEN Len(fs) + 1 ELSE CHOOSE i \in stops : \A j \in stops : i <= j

IsNumber(f) == f.kind = "number"

\* The Args of the numeric fields among the first n fields, in order.
NumbersBefore(fs, n) ==
  LET nums == SelectSeq(SubSeq(fs, 1, n - 1), IsNumber)
  IN  [i \in 1..Len(nums) |-> [Value |-> nums[i].val]]

\* What the claim gives for the fields fs whose first stop is k.
ArgsAsClaimed(r, fs, k) ==
  /\ r.found
  /\ r.c.Func.Raw = "main.f"
  /\ IF k <= Len(fs) /\ fs[k].kind = "other"
     THEN r.err # nil
     ELSE /\ r.err = nil
          /\ r.c.Args.Values = NumbersBefore(fs, k)
          /\ r.c.Args.Elided = (\E i \in 1..(k - 1) : fs[i].kind = "dots")

\* C7: of the fields of an argument list split on ", ", every number before
\* the first empty field is one Arg, in order, "..." sets Args.Elided, an
\* empty field stops the parsing without error, and a field that is neither
\* a number nor "..." before the first empty field is an error.
C7_ParseFuncArguments ==
  res # <<>> => ArgsAsClaimed(res[1], fields, FirstStop(fields))

\* main.f(1, , zz) was parsed: one Arg and no error.
C7_Witness ==
  /\ res # <<>>
  /\ FuncLine(fields) = "main.f(1, , zz)"
  /\ res[1].err = nil
  /\ res[1].c.Args.Values = <<[Value |-> 1]>>

(***************************************************************************)
(* Properties of the goroutine header (Spec).                              *)
(***************************************************************************)
\* The step read, where a header is looked for, a line with the shape of a
\* header whose id strconv.Atoi rejects.
HeaderWithBadId(m) ==
  /\ nread' = nread + 1
  /\ state \in {"normal", "betweenRoutine"}
  /\ HasSuffix(line', "\n")
  /\ m.ok
  /\ ~Atoi(m.m2).ok

\* C11: a line with the shape of a goroutine header whose id is not an
\* integer is reported to the caller as an error; it is never treated as a
\* line that does not match.
C11_BadHeaderIdIsAnError ==
  [][HeaderWithBadId(reRoutineHeader(Stripped(line', prefix))) => err' # nil]_vars

(***************************************************************************)
(* Properties of the guess of the roots (SpecRoots, SpecRooted).           *)
(***************************************************************************)
\* The paths of the calls of the goroutines.
PathsOf(gs) ==
  UNION {{gs[i].Stack.Calls[j].SrcPath : j \in 1..Len(gs[i].Stack.Calls)} :
           i \in 1..Len(gs)}

\* The path made of root and of parts without its first i components.
SuffixUnder(root, parts, i) ==
  root \o "/" \o Join(SubSeq(parts, i + 1, Len(parts)), "/")

\* The drop counts for which the rest of parts is a regular file under root.
Matches(root, parts) ==
  {i \in 1..(Len(parts) - 1) : SuffixUnder(root, parts, i) \in host.files}

\* Some suffix of the path f is a regular file under <localgoroot>/src.
UnderLocalGoroot(f) == Matches(host.localgoroot \o "/src", splitPath(f)) # {}

\* ParseDump, asked to guess, is over for one goroutine at least.
Guessed ==
  /\ pc \in {"returned", "panicked"}
  /\ guesspaths
  /\ goroutines # <<>>

\* C12: when a path of the dump has a suffix that is a regular file under
\* <localgoroot>/src, findRoots sets GOROOT to a prefix R of the path such
\* that the path starts with R + "/src/", and adds no entry to GOPATHs for
\* that path.
C12_ToolchainRoot ==
  Guessed =>
    /\ pc = "returned"
    /\ \A f \in PathsOf(goroutines) :
         UnderLocalGoroot(f) =>
           /\ HasPrefix(f, ctx[1].GOROOT \o "/src/")
           /\ ~hasSrcPrefix(f, ctx[1].GOPATHs)

\* C13: when ParseDump is called with guesspaths false no path is handed to
\* isFile and the Context returned has an empty GOROOT and no GOPATHs,
\* whatever the goroutines and the files of the host.
C13_RootsAreOptIn ==
  (pc # "parsed" /\ ~guesspaths) =>
    /\ pc = "returned"
    /\ statted = <<>>
    /\ goroutines = <<>> => ctx = <<>>
    /\ goroutines # <<>> =>
         ctx = <<[Goroutines |-> goroutines, GOROOT |-> "", GOPATHs |-> <<>>]>>

\* ParseDump returned without guessing although the file of a call is there
\* under the GOROOT of the host.
C13_Witness ==
  /\ pc = "returned"
  /\ ~guesspaths
  /\ ctx # <<>>
  /\ "/remote/src/pkg/sub/file.go" \in PathsOf(goroutines)
  /\ "/usr/go/src/pkg/sub/file.go" \in host.files

\* The first n paths rootedIn tries under root, in order.
Tried(root, parts, n) == [i \in 1..n |-> SuffixUnder(root, parts, i)]

\* What rootedIn returns and looks at for the drop counts ms that match.
RootedInAsClaimed(r, root, parts, ms) ==
  IF ms = {}
  THEN /\ r = ""
       /\ statted = Tried(root, parts, IF parts = <<>> THEN 0 ELSE Len(parts) - 1)
  ELSE \E i \in ms :
         /\ \A j \in ms : i <= j
         /\ r = Join(SubSeq(parts, 1, i), "/")
         /\ statted = Tried(root, parts, i)

\* C20: rootedIn(root, parts) tries the drop counts 1, 2, ... len(parts)-1 in
\* increasing order and returns the first i components joined for the
\* smallest i whose remaining suffix, under root, is a regular file; it
\* returns "" when there is none, a path of one component included.
C20_RootedInFirstMatch ==
  (pc = "returned" /\ res # <<>>) =>
    RootedInAsClaimed(res[1], fields[1], fields[2], Matches(fields[1], fields[2]))

\* Two drop counts matched and rootedIn returned the root of the smaller.
C20_Witness ==
  /\ pc = "returned"
  /\ res = <<"/remote/src">>
  /\ Matches(fields[1], fields[2]) = {2, 3}
  /\ Len(statted) = 2

(***************************************************************************)
(* Properties of the steps of scan (Spec, SpecScan).                       *)
(***************************************************************************)
\* C14: after every recognized header the prefix is the full leading
\* whitespace of that header line as it is in the input, for every goroutine
\* of a dump and not only the first.
C14_PrefixIsHeaderIndentation ==
  [][(nread' = nread + 1 /\ HeaderRecognized) => prefix' = LeadingSpace(line')]_vars

\* The line l passes the indentation check of scan under the prefix pfx.
IndentOk(l, pfx) == Trimmed(l) = "" \/ pfx = "" \/ HasPrefix(Trimmed(l), pfx)

\* The line l without its terminator, and without the prefix pfx when it
\* starts with it.
Seen(l, pfx) == IF IndentOk(l, pfx) THEN Stripped(l, pfx) ELSE Trimmed(l)

\* x starts a goroutine: m is what reRoutineHeader gives for it.
IsHeader(m) == m.ok /\ Atoi(m.m2).ok

\* x is nothing that normal and betweenRoutine look for.
NothingForNormal(x) ==
  /\ ~IsHeader(reRoutineHeader(x))
  /\ ~(raceDetectionEnabled /\ x = raceHeaderFooter)

\* x is not empty and is nothing that gotFileFunc accepts.
NothingForFileFunc(x) ==
  /\ x # ""
  /\ ~reCreated(x).ok
  /\ x # elided
  /\ ~reFunc(x).ok

\* scan is called, in a state that tolerates it, on a line x that the state
\* does not look for.
Tolerated(x) ==
  /\ nread' = nread + 1
  /\ \/ state \in {"normal", "betweenRoutine"} /\ NothingForNormal(x)
     \/ state = "gotFileFunc" /\ NothingForFileFunc(x)
     \/ state = "gotFileCreated" /\ x # ""

\* The line is returned for passthrough and the scan is back to normal.
PassedThrough ==
  /\ out' = Append(out, line')
  /\ err' = nil
  /\ state' = "normal"
  /\ goroutines' = goroutines

\* An unterminated line is read in state normal.
ReturnedAtOnce == state = "normal" /\ ~HasSuffix(line', "\n")

\* C15, as stated: in normal and betweenRoutine a line that is not a header
\* (nor, race detection on, the separator), and in gotFileFunc and
\* gotFileCreated a non-empty line that is none of the shapes the state
\* accepts, is returned verbatim with no error, the next state is normal,
\* the prefix is cleared and the goroutines are unchanged.
C15_PassthroughIsNoError ==
  [][Tolerated(Seen(line', prefix)) => PassedThrough /\ prefix' = ""]_vars

\* C15, amended: the same of a line that is empty or starts with the active
\* prefix; the prefix is cleared but for an unterminated line read in state
\* normal, which is returned at once and leaves the prefix as it is.
C15_PassthroughUnderThePrefix ==
  [][(IndentOk(line', prefix) /\ Tolerated(Seen(line', prefix))) =>
       /\ PassedThrough
       /\ prefix' = IF ReturnedAtOnce THEN prefix ELSE ""]_vars

\* Under the prefix of an indented block, after the file line of a call, an
\* indented line that is no function was passed through.
C15_Witness ==
  /\ Len(goroutines) = 1
  /\ Len(goroutines[1].Stack.Calls) = 1
  /\ goroutines[1].Stack.Calls[1].SrcPath = "/c.go"
  /\ out = <<"  \t/c.go:7\n">>
  /\ state = "normal"
  /\ prefix = ""
  /\ err = nil

\* C16: a step of scan either appends one goroutine at the end or changes
\* only the last goroutine: the goroutines before the last are never
\* changed, removed or reordered; and out of a block, in normal or
\* betweenRoutine, only a new header changes the goroutines.
C16_GoroutinesAppendOnly ==
  [][/\ Len(goroutines') \in {Len(goroutines), Len(goroutines) + 1}
     /\ \A i \in 1..(Len(goroutines) - 1) : goroutines'[i] = goroutines[i]
     /\ Len(goroutines') = Len(goroutines) + 1 =>
          SubSeq(goroutines', 1, Len(goroutines)) = goroutines
     /\ (state \in {"normal", "betweenRoutine"} /\ goroutines' # goroutines) =>
          /\ HeaderRecognized
          /\ SubSeq(goroutines', 1, Len(goroutines)) = goroutines]_vars

\* The second of two goroutines got its call and its file while the first,
\* complete, is as it was.
C16_Witness ==
  /\ Len(goroutines) = 2
  /\ Len(goroutines[1].Stack.Calls) = 1
  /\ goroutines[1].Stack.Calls[1].SrcPath # ""
  /\ Len(goroutines[2].Stack.Calls) = 1
  /\ state = "gotFunc"

(***************************************************************************)
(* Properties of the report of a data race (SpecOff, SpecRace).            *)
(***************************************************************************)
RaceStates ==
  {"gotRaceHeader1", "gotRaceHeader", "gotRaceOperationHeader",
   "gotRaceOperationFunc", "gotRaceOperationFile", "gotRaceGoroutineHeader",
   "gotRaceGoroutineFunc", "gotRaceGoroutineFile", "betweenRaces"}

\* The separator or the warning is read out of a block.
RaceLineOutOfBlock ==
  /\ nread' = nread + 1
  /\ state = "normal"
  /\ Trimmed(line') \in {raceHeaderFooter, raceHeader}

C18_RaceReportIsConsumed ==
  rep.stage # "off" =>
    /\ err = nil
    /\ out = <<>>
    /\ rep.stage = "closed" => state = "normal"

\* C19: with race detection on, once a report was scanned without error
\* from the separator that opens it to the one that closes it, the
\* goroutines (their number and the calls of each) are as they were before
\* the report.
C19_RaceReportLeavesGoroutines ==
  (rep.stage = "closed" /\ err = nil) => goroutines = rep.goroutines

(***************************************************************************)
(* Properties of the order of findRoots (SpecRoots).                       *)
(***************************************************************************)
\* The paths rootedIn is expected to look at under root: up to the first
\* drop count that matches, all of them when none does.
Looks(root, parts) ==
  LET ms == Matches(root, parts)
  IN  Tried(root, parts,
            IF ms # {} THEN CHOOSE i \in ms : \A j \in ms : i <= j
            ELSE IF parts = <<>> THEN 0 ELSE Len(parts) - 1)

\* The directories findRoots looks under for a workspace, in the order of
\* the claim: the candidates in list order, src before pkg/mod for each.
Candidates(ls) ==
  [n \in 1..(2 * Len(ls)) |->
     [root |-> ls[(n + 1) \div 2] \o (IF n % 2 = 1 THEN "/src" ELSE "/pkg/mod"),
      dir  |-> ls[(n + 1) \div 2]]]

\* The candidates under which some suffix of parts is a regular file.
Matching(cs, parts) == {n \in 1..Len(cs) : Matches(cs[n].root, parts) # {}}

\* The paths looked at under the first n candidates, in order.
RECURSIVE LooksUnder(_, _, _)
LooksUnder(cs, parts, n) ==
  IF n = 0 THEN <<>>
  ELSE LooksUnder(cs, parts, n - 1) \o Looks(cs[n].root, parts)

\* The file f is explained by the roots known at tb.
Explained(tb, f) ==
  \/ tb.c.GOROOT # "" /\ HasPrefix(f, tb.c.GOROOT \o "/src/")
  \/ hasSrcPrefix(f, tb.c.GOPATHs)

\* The workspace part of a step for the file split in parts, the candidates
\* cs and those of them that match, ns; before is what was looked at up to
\* that part.
WorkspaceAsClaimed(tb, ta, parts, cs, ns, before) ==
  IF ns = {}
  THEN /\ ~ta.panicked
       /\ ta.c = tb.c
       /\ ta.statted = before \o LooksUnder(cs, parts, Len(cs))
  ELSE \E n \in ns :
         /\ \A m \in ns : n <= m
         /\ ~ta.panicked
         /\ ta.c.GOROOT = tb.c.GOROOT
         /\ \E key \in DOMAIN ta.c.GOPATHs \ DOMAIN tb.c.GOPATHs :
              ta.c.GOPATHs = MapSet(tb.c.GOPATHs, key, cs[n].dir)
         /\ ta.statted = before \o LooksUnder(cs, parts, n)

\* The toolchain part of a step, GOROOT being empty at tb: under is what is
\* looked at under <localgoroot>/src and found tells whether a suffix of the
\* file is there.
ToolchainAsClaimed(tb, ta, parts, under, found) ==
  IF found
  THEN /\ ta.c.GOPATHs = tb.c.GOPATHs
       /\ ta.statted = tb.statted \o under
  ELSE WorkspaceAsClaimed(tb, ta, parts, Candidates(tb.c.localgopaths),
                          Matching(Candidates(tb.c.localgopaths), parts),
                          tb.statted \o under)

\* findRoots goes from tb to ta on the file f as the claim says it does.
StepAsClaimed(tb, ta, f) ==
  IF Explained(tb, f) THEN ta = tb
  ELSE IF tb.c.GOROOT # ""
  THEN WorkspaceAsClaimed(tb, ta, splitPath(f), Candidates(tb.c.localgopaths),
                          Matching(Candidates(tb.c.localgopaths), splitPath(f)),
                          tb.statted)
  ELSE ToolchainAsClaimed(tb, ta, splitPath(f),
                          Looks(tb.c.localgoroot \o "/src", splitPath(f)),
                          Matches(tb.c.localgoroot \o "/src", splitPath(f)) # {})

\* findRoots before its first file, and after the first n of files.
RootsStart(gs) ==
  [c |-> [NewContext(gs) EXCEPT !.GOPATHs = <<>>], statted |-> <<>>, panicked |-> FALSE]

RootsAfter(gs, files, n) == findRootsLoop(RootsStart(gs), SubSeq(files, 1, n), 1)

\* The files are visited in sorted order, each path of the calls once.
VisitedInOrder(gs, files) ==
  /\ {files[i] : i \in 1..Len(files)} = PathsOf(gs)
  /\ \A i \in 1..(Len(files) - 1) : StringLess(files[i], files[i + 1])

\* Every step of findRoots that begins is as the claim says.
StepsAsClaimed(gs, files) ==
  \A i \in 1..Len(files) :
    ~RootsAfter(gs, files, i - 1).panicked =>
      StepAsClaimed(RootsAfter(gs, files, i - 1), RootsAfter(gs, files, i), files[i])

\* C21: findRoots visits the paths of the calls in sorted order, each once;
\* a path explained by the GOROOT or by an entry of GOPATHs known so far is
\* skipped and nothing is looked at for it; the file is looked for under
\* <localgoroot>/src only while GOROOT is empty, and a GOROOT that is set is
\* kept; otherwise the candidates are tried in list order, src before
\* pkg/mod for each, and the first that matches adds exactly one entry to
\* GOPATHs, mapped to that candidate; a path that matches nothing adds
\* nothing and is no error.
C21_ResolutionOrder ==
  Guessed =>
    /\ VisitedInOrder(goroutines, getFiles(goroutines))
    /\ StepsAsClaimed(goroutines, getFiles(goroutines))
    /\ statted = RootsAfter(goroutines, getFiles(goroutines),
                            Len(getFiles(goroutines))).statted

\* The directories findRoots hands to rootedIn on this host, each with the
\* end its remote counterpart is expected to have.
RootKinds ==
  {[root |-> host.localgoroot \o "/src", kind |-> "/src"]}
    \cup {[root |-> host.localgopaths[k] \o "/src", kind |-> "/src"] :
            k \in 1..Len(host.localgopaths)}
    \cup {[root |-> host.localgopaths[k] \o "/pkg/mod", kind |-> "/pkg/mod"] :
            k \in 1..Len(host.localgopaths)}

\* r, returned by rootedIn for a root of that kind, is empty or can be cut.
CanBeCut(r, kind) == r # "" => (Len(r) >= Len(kind) /\ HasSuffix(r, kind))

\* C23: findRoots never slices out of range: whatever the paths of the dump
\* and the files of the host, what rootedIn returns for a match under
\* <root>/src ends with "/src" and has 4 characters at least, what it
\* returns for a match under <root>/pkg/mod ends with "/pkg/mod" and has 8
\* at least, so that ParseDump returns its Context.
C23_NoSliceOutOfRange ==
  Guessed =>
    /\ pc = "returned" /\ ctx # <<>>
    /\ \A f \in PathsOf(goroutines), rk \in RootKinds :
         CanBeCut(rootedIn(rk.root, splitPath(f)), rk.kind)

(***************************************************************************)
(* Properties of the prefix in the report of a data race (SpecRace).       *)
(***************************************************************************)
\* C22: between two calls of scan, with race detection on or off, the
\* prefix is not empty only inside a block: when the state is normal the
\* prefix is the empty string.
C22_NormalHasNoPrefix == state = "normal" => prefix = ""

====
